---- MODULE Spec2Model ----
(***************************************************************************)
(* A model of kubectl-usage's collection engine and resilience primitives. *)
(*                                                                         *)
(*   Spec            StreamingCollector.CollectStreaming as a set of       *)
(*                   goroutines (pkg/collector/collector.go)               *)
(*   SpecLive        the same with the Go scheduler's weak fairness        *)
(*   SpecCollect     Collector.Collect (pkg/collector/collector.go)        *)
(*   SpecBreaker     CircuitBreaker with concurrent callers (resilience)   *)
(*   SpecBreakerSeq  CircuitBreaker with one Execute call at a time        *)
(*   SpecPool        ResourcePool, every Release matching an Acquire       *)
(*   SpecPoolAny     ResourcePool with unmatched Release calls as well     *)
(*   SpecRetry       one ExecuteWithRetry call (resilience)                *)
(*   SpecRows        the row computer applied to one metric sample and its *)
(*                   matched pod (computePodRow, computeContainerRows)      *)
(*   SpecIndex       the correlation index being built: indexPodPage tasks *)
(*                   of the streaming collector, or correlateData's loop   *)
(*   SpecAnalyzer    Analyzer.Sort then Analyzer.Filter on collected rows  *)
(*   SpecMonitor     PerformanceMonitor: its goroutine, ticker and Stop    *)
(*   SpecMonitorLive the same with the Go scheduler's weak fairness        *)
(*                                                                         *)
(* Every specification leaves the variables of the other components at     *)
(* their initial values.                                                   *)
(***************************************************************************)
EXTENDS Integers, Sequences, FiniteSets, TLC

VARIABLES
    \* ---- CollectStreaming ----
    ctxDone,            \* the errgroup's derived context is done
    parentCancelled,    \* the caller cancelled (or timed out) the context it passed in
    gErr,               \* errgroup: the first non-nil error returned by a task
    podChan,            \* chan []corev1.Pod: page numbers in flight
    podChanClosed,
    metricsChan,        \* chan []metrics.PodMetrics: page numbers in flight
    metricsChanClosed,
    resultChan,         \* chan StreamingResult
    resultChanClosed,
    mainPc,             \* the goroutine started by CollectStreaming
    spPc, spToken, spErr,   \* streamPods: position, continue token, error being returned
    smPc, smToken, smErr,   \* streamMetrics
    corrPc,             \* correlateStreamingData
    idxPc,              \* one index task per pod page
    metPc, metPos,      \* one task per metrics page, and its position in the page
    semCur,             \* semaphore.Weighted: permits held
    podIndex,           \* sync.Map: the keys stored
    recvErr,            \* the consumer received an error value
    \* ---- Collect ----
    serverPods,         \* what the pod list call returns when it succeeds
    serverMetrics,      \* what the pod-metrics list call returns when it succeeds
    opts,               \* config.Options: Mode, Resource, ExcludeNamespaces, LabelSelector
    cPc,                \* Collect: "idle", "wait", "done"
    cCtxDone,           \* the errgroup's derived context is done
    cgErr,              \* errgroup: the first non-nil error returned by a fetch
    fpPc, fpErr,        \* the goroutine calling fetchPods and what it returned
    fmPc, fmErr,        \* the goroutine calling fetchPodMetrics and what it returned
    podsList,           \* Collect's local podsList
    metricsList,        \* Collect's local metricsList
    collectRows,        \* Collect's first result
    collectErr,         \* Collect's second result
    \* ---- CircuitBreaker ----
    currentState,       \* cb.currentState: "Closed", "HalfOpen", "Open"
    failureCount,       \* cb.failureCount
    lastFailure,        \* cb.lastFailure: Unix seconds
    successCount,       \* cb.successCount
    now,                \* the clock, in ticks of 1/TicksPerSecond s
    exPc,               \* per caller: where its Execute call is
    exState,            \* per caller: the state canExecute loaded
    exResult,           \* per caller: what its last Execute returned
    lastFailureAt,      \* history: the tick of the last recorded failure
    halfOpenStreak,     \* history: successes in a row recorded in this HalfOpen period
    failuresInRow,      \* history: failed operations since the last one that succeeded
    \* ---- ResourcePool ----
    currentMemMB,       \* rp.currentMemMB
    semaphoreLen,       \* len(rp.semaphore)
    rpPc,               \* per caller: where its Acquire or Release call is
    rpCost,             \* per caller: the estimatedMemMB of its Acquire, until released
    rpCtxDone,          \* per caller: the context of its Acquire call in progress is done
    rpResult,           \* per caller: what its last Acquire returned, until it calls again
    \* ---- ExecuteWithRetry ----
    config,             \* the RetryConfig of the call
    rtCtxDone,          \* the context of the call is done
    rtPc,               \* where the call is
    attempt,            \* the loop variable
    delay,              \* the local variable delay
    lastErr,            \* the local lastErr: 0 for nil, k for the error of the k-th invocation
    rtResult,           \* what the call returned
    invocations,        \* history: how many times fn was invoked
    sleeps,             \* history: the delays slept in full, in order
    \* ---- the correlation index ----
    ixVia,              \* which code builds the index: "indexPodPage" or "correlateData"
    ixOpts,             \* the config.Options fields the filters read
    ixPages,            \* the pod pages, one per task
    ixPos,              \* per task: the position of the next pod of its loop
    ixIndex,            \* podIndex: entries [key, info, from]
    ixStored,           \* history: the <<task, position>> of every pod stored
    \* ---- the row computer ----
    rwPm,               \* the metrics.PodMetrics sample
    rwPod,              \* the pod the sample's key is indexed to
    rwOpts,             \* opts.Mode and opts.Resource
    rwPc,               \* "start" before the rows of the sample are computed
    rwRows,             \* the rows computed for the sample
    \* ---- Analyzer ----
    anRows,             \* the rows Collect returned, as passed to Sort
    anOpts,             \* opts.Sort, opts.Resource and opts.TopN
    anPc,               \* "sort", then "filter", then "done"
    anSorted,           \* the slice after Sort, as passed to Filter
    anOut,              \* the slice Filter returned
    \* ---- PerformanceMonitor ----
    pmPc,               \* the goroutine: "select", "waiting", "update", "returned"
    pmTick,             \* ticks held by pm.ticker.C
    pmTickerStopped,    \* pm.ticker.Stop() was called
    pmStopPc,           \* a Stop call: "idle" when none runs, "send" at its select
    pmStops,            \* Stop calls that have returned
    pmCtxDone,          \* the context passed to Start is done
    pmUpdates           \* UpdateMemoryUsage calls made

svars == <<ctxDone, parentCancelled, gErr, podChan, podChanClosed, metricsChan,
           metricsChanClosed, resultChan, resultChanClosed, mainPc, spPc, spToken,
           spErr, smPc, smToken, smErr, corrPc, idxPc, metPc, metPos, semCur,
           podIndex, recvErr>>

cvars == <<serverPods, serverMetrics, opts, cPc, cCtxDone, cgErr, fpPc, fpErr, fmPc,
           fmErr, podsList, metricsList, collectRows, collectErr>>

bvars == <<currentState, failureCount, lastFailure, successCount, now, exPc, exState,
           exResult, lastFailureAt, halfOpenStreak, failuresInRow>>

pvars == <<currentMemMB, semaphoreLen, rpPc, rpCost, rpCtxDone, rpResult>>

rvars == <<config, rtCtxDone, rtPc, attempt, delay, lastErr, rtResult, invocations,
           sleeps>>

ivars == <<ixVia, ixOpts, ixPages, ixPos, ixIndex, ixStored>>

wvars == <<rwPm, rwPod, rwOpts, rwPc, rwRows>>

avars == <<anRows, anOpts, anPc, anSorted, anOut>>

mvars == <<pmPc, pmTick, pmTickerStopped, pmStopPc, pmStops, pmCtxDone, pmUpdates>>

vars == <<svars, cvars, bvars, pvars, rvars, ivars, wvars, avars, mvars>>

\* What the actions of one component leave unchanged.
notStreaming == <<cvars, bvars, pvars, rvars, ivars, wvars, avars, mvars>>
notCollect == <<svars, bvars, pvars, rvars, ivars, wvars, avars, mvars>>
notBreaker == <<svars, cvars, pvars, rvars, ivars, wvars, avars, mvars>>
notPool == <<svars, cvars, bvars, rvars, ivars, wvars, avars, mvars>>
notRetry == <<svars, cvars, bvars, pvars, ivars, wvars, avars, mvars>>
notIndex == <<svars, cvars, bvars, pvars, rvars, wvars, avars, mvars>>
notRows == <<svars, cvars, bvars, pvars, rvars, ivars, avars, mvars>>
notAnalyzer == <<svars, cvars, bvars, pvars, rvars, ivars, wvars, mvars>>
notMonitor == <<svars, cvars, bvars, pvars, rvars, ivars, wvars, avars>>

----------------------------------------------------------------------------
\* Bounds of the CollectStreaming model.
NumPodPages == 2        \* pages the server serves for the pod list
NumMetPages == 2        \* pages the server serves for the pod-metrics list
PageLen == 1            \* metric samples per metrics page
PodChanCap == 1         \* capacity of podChan (10 in the source, scaled)
MetricsChanCap == 1     \* capacity of metricsChan (10 in the source, scaled)
BufferSize == 1         \* capacity of resultChan (1000 in the source, scaled)
MaxConcurrency == 2     \* StreamingCollector.maxConcurrency (runtime.NumCPU()*2 by default)

NoErr == "nil"
ErrStreamPods == "failed to stream pods page"
ErrStreamMetrics == "failed to stream metrics page"
ErrCanceled == "context canceled"

PodPageNos == 1..NumPodPages
MetPageNos == 1..NumMetPages

\* The pod page p holds the one pod with key p.
PodPage(p) == <<p>>

\* The metrics page m holds PageLen samples, keyed round-robin from pod m + 1
\* over the pods and one key (NumPodPages + 1) no pod has.
MetricsPage(m) == [i \in 1..PageLen |-> ((m + i - 1) % (NumPodPages + 1)) + 1]

Row(key) == [kind |-> "row", key |-> key]
ErrorResult(e) == [kind |-> "error", err |-> e]

----------------------------------------------------------------------------
InitStreaming ==
    /\ ctxDone = FALSE
    /\ parentCancelled = FALSE
    /\ gErr = NoErr
    /\ podChan = <<>>
    /\ podChanClosed = FALSE
    /\ metricsChan = <<>>
    /\ metricsChanClosed = FALSE
    /\ resultChan = <<>>
    /\ resultChanClosed = FALSE
    /\ mainPc = "start"
    /\ spPc = "idle" /\ spToken = 0 /\ spErr = NoErr
    /\ smPc = "idle" /\ smToken = 0 /\ smErr = NoErr
    /\ corrPc = "idle"
    /\ idxPc = [p \in PodPageNos |-> "none"]
    /\ metPc = [m \in MetPageNos |-> "none"]
    /\ metPos = [m \in MetPageNos |-> 1]
    /\ semCur = 0
    /\ podIndex = {}
    /\ recvErr = FALSE

\* A group that keeps the last non-nil error returned.
GroupReturnKeepLast(err) ==
    /\ gErr' = IF err # NoErr THEN err ELSE gErr
    /\ ctxDone' = (ctxDone \/ err # NoErr)

\* errgroup.Group.Go's wrapper around a task that returns err: the first non-nil
\* error is kept and cancels the derived context.
GroupReturn(err) ==
    /\ gErr' = IF err # NoErr /\ gErr = NoErr THEN err ELSE gErr
    /\ ctxDone' = (ctxDone \/ err # NoErr)

\* processStreamingData: the three g.Go calls.
processStreamingData ==
    /\ mainPc = "start"
    /\ mainPc' = "wait"
    /\ spPc' = "list"
    /\ smPc' = "list"
    /\ corrPc' = "pods"
    /\ UNCHANGED <<ctxDone, parentCancelled, gErr, podChan, podChanClosed, metricsChan,
                   metricsChanClosed, resultChan, resultChanClosed, spToken, spErr,
                   smToken, smErr, idxPc, metPc, metPos, semCur, podIndex, recvErr>>
    /\ UNCHANGED notStreaming

\* A streamPods whose failed List call returns without closing podChan.
streamPodsListNoClose ==
    /\ spPc = "list"
    /\ \/ /\ ~ctxDone
          /\ spPc' = "send"
          /\ UNCHANGED spErr
       \/ /\ spErr' = ErrStreamPods
          /\ spPc' = "ret"
    /\ UNCHANGED <<ctxDone, parentCancelled, gErr, podChan, podChanClosed, metricsChan,
                   metricsChanClosed, resultChan, resultChanClosed, mainPc, spToken,
                   smPc, smToken, smErr, corrPc, idxPc, metPc, metPos, semCur,
                   podIndex, recvErr>>
    /\ UNCHANGED notStreaming

\* streamPods: one Pods(namespace).List call with the continue token of the last
\* response. The call fails (any call may; a call on a done context does), or
\* returns the next page.
streamPodsList ==
    /\ spPc = "list"
    /\ \/ /\ ~ctxDone
          /\ spPc' = "send"
          /\ UNCHANGED <<podChanClosed, spErr>>
       \/ /\ podChanClosed' = TRUE
          /\ spErr' = ErrStreamPods
          /\ spPc' = "ret"
    /\ UNCHANGED <<ctxDone, parentCancelled, gErr, podChan, metricsChan,
                   metricsChanClosed, resultChan, resultChanClosed, mainPc, spToken,
                   smPc, smToken, smErr, corrPc, idxPc, metPc, metPos, semCur,
                   podIndex, recvErr>>
    /\ UNCHANGED notStreaming

\* A streamPods that never takes the continue token of the response.
streamPodsSendKeepToken ==
    /\ spPc = "send"
    /\ \/ /\ Len(podChan) < PodChanCap
          /\ podChan' = Append(podChan, spToken + 1)
          /\ spPc' = "list"
          /\ UNCHANGED <<podChanClosed, spToken, spErr>>
       \/ /\ ctxDone
          /\ podChanClosed' = TRUE
          /\ spErr' = ErrCanceled
          /\ spPc' = "ret"
          /\ UNCHANGED <<podChan, spToken>>
    /\ UNCHANGED <<ctxDone, parentCancelled, gErr, metricsChan, metricsChanClosed,
                   resultChan, resultChanClosed, mainPc, smPc, smToken, smErr, corrPc,
                   idxPc, metPc, metPos, semCur, podIndex, recvErr>>
    /\ UNCHANGED notStreaming

\* streamPods: the select that sends page spToken + 1, then the test of the
\* page's continue token (empty on the last page).
streamPodsSend ==
    /\ spPc = "send"
    /\ \/ /\ Len(podChan) < PodChanCap
          /\ podChan' = Append(podChan, spToken + 1)
          /\ IF spToken + 1 = NumPodPages
                THEN /\ podChanClosed' = TRUE
                     /\ spPc' = "done"
                     /\ UNCHANGED spToken
                ELSE /\ spToken' = spToken + 1
                     /\ spPc' = "list"
                     /\ UNCHANGED podChanClosed
          /\ UNCHANGED spErr
       \/ /\ ctxDone
          /\ podChanClosed' = TRUE
          /\ spErr' = ErrCanceled
          /\ spPc' = "ret"
          /\ UNCHANGED <<podChan, spToken>>
    /\ UNCHANGED <<ctxDone, parentCancelled, gErr, metricsChan, metricsChanClosed,
                   resultChan, resultChanClosed, mainPc, smPc, smToken, smErr, corrPc,
                   idxPc, metPc, metPos, semCur, podIndex, recvErr>>
    /\ UNCHANGED notStreaming

\* streamPods has returned spErr to the errgroup.
streamPodsReturn ==
    /\ spPc = "ret"
    /\ GroupReturn(spErr)
    /\ spPc' = "done"
    /\ UNCHANGED <<parentCancelled, podChan, podChanClosed, metricsChan,
                   metricsChanClosed, resultChan, resultChanClosed, mainPc, spToken,
                   spErr, smPc, smToken, smErr, corrPc, idxPc, metPc, metPos, semCur,
                   podIndex, recvErr>>
    /\ UNCHANGED notStreaming

\* A streamMetrics whose List call is served whether or not ctx is done.
streamMetricsListIgnoringCtx ==
    /\ smPc = "list"
    /\ \/ /\ smPc' = "send"
          /\ UNCHANGED <<metricsChanClosed, smErr>>
       \/ /\ metricsChanClosed' = TRUE
          /\ smErr' = ErrStreamMetrics
          /\ smPc' = "ret"
    /\ UNCHANGED <<ctxDone, parentCancelled, gErr, podChan, podChanClosed, metricsChan,
                   resultChan, resultChanClosed, mainPc, spPc, spToken, spErr, smToken,
                   corrPc, idxPc, metPc, metPos, semCur, podIndex, recvErr>>
    /\ UNCHANGED notStreaming

\* streamMetrics: one PodMetricses(namespace).List call with the continue token
\* of the last response; it fails, or returns the next page, as in streamPods.
streamMetricsList ==
    /\ smPc = "list"
    /\ \/ /\ ~ctxDone
          /\ smPc' = "send"
          /\ UNCHANGED <<metricsChanClosed, smErr>>
       \/ /\ metricsChanClosed' = TRUE
          /\ smErr' = ErrStreamMetrics
          /\ smPc' = "ret"
    /\ UNCHANGED <<ctxDone, parentCancelled, gErr, podChan, podChanClosed, metricsChan,
                   resultChan, resultChanClosed, mainPc, spPc, spToken, spErr, smToken,
                   corrPc, idxPc, metPc, metPos, semCur, podIndex, recvErr>>
    /\ UNCHANGED notStreaming

streamMetricsSend ==
    /\ smPc = "send"
    /\ \/ /\ Len(metricsChan) < MetricsChanCap
          /\ metricsChan' = Append(metricsChan, smToken + 1)
          /\ IF smToken + 1 = NumMetPages
                THEN /\ metricsChanClosed' = TRUE
                     /\ smPc' = "done"
                     /\ UNCHANGED smToken
                ELSE /\ smToken' = smToken + 1
                     /\ smPc' = "list"
                     /\ UNCHANGED metricsChanClosed
          /\ UNCHANGED smErr
       \/ /\ ctxDone
          /\ metricsChanClosed' = TRUE
          /\ smErr' = ErrCanceled
          /\ smPc' = "ret"
          /\ UNCHANGED <<metricsChan, smToken>>
    /\ UNCHANGED <<ctxDone, parentCancelled, gErr, podChan, podChanClosed, resultChan,
                   resultChanClosed, mainPc, spPc, spToken, spErr, corrPc, idxPc,
                   metPc, metPos, semCur, podIndex, recvErr>>
    /\ UNCHANGED notStreaming

streamMetricsReturn ==
    /\ smPc = "ret"
    /\ GroupReturn(smErr)
    /\ smPc' = "done"
    /\ UNCHANGED <<parentCancelled, podChan, podChanClosed, metricsChan,
                   metricsChanClosed, resultChan, resultChanClosed, mainPc, spPc,
                   spToken, spErr, smToken, smErr, corrPc, idxPc, metPc, metPos,
                   semCur, podIndex, recvErr>>
    /\ UNCHANGED notStreaming

\* correlateStreamingData, first loop: `for podPage := range podChan` starts one
\* index task per page received and ends when podChan is closed and drained.
correlateRangePods ==
    /\ corrPc = "pods"
    /\ \/ /\ podChan # <<>>
          /\ podChan' = Tail(podChan)
          /\ idxPc' = [idxPc EXCEPT ![Head(podChan)] = "acquire"]
          /\ UNCHANGED corrPc
       \/ /\ podChan = <<>>
          /\ podChanClosed
          /\ corrPc' = "metrics"
          /\ UNCHANGED <<podChan, idxPc>>
    /\ UNCHANGED <<ctxDone, parentCancelled, gErr, podChanClosed, metricsChan,
                   metricsChanClosed, resultChan, resultChanClosed, mainPc, spPc,
                   spToken, spErr, smPc, smToken, smErr, metPc, metPos, semCur,
                   podIndex, recvErr>>
    /\ UNCHANGED notStreaming

\* correlateStreamingData, second loop: `for metricsPage := range metricsChan`
\* starts one task per page received; the function returns nil after the loop.
correlateRangeMetrics ==
    /\ corrPc = "metrics"
    /\ \/ /\ metricsChan # <<>>
          /\ metricsChan' = Tail(metricsChan)
          /\ metPc' = [metPc EXCEPT ![Head(metricsChan)] = "acquire"]
          /\ UNCHANGED corrPc
       \/ /\ metricsChan = <<>>
          /\ metricsChanClosed
          /\ corrPc' = "done"
          /\ UNCHANGED <<metricsChan, metPc>>
    /\ UNCHANGED <<ctxDone, parentCancelled, gErr, podChan, podChanClosed,
                   metricsChanClosed, resultChan, resultChanClosed, mainPc, spPc,
                   spToken, spErr, smPc, smToken, smErr, idxPc, metPos, semCur,
                   podIndex, recvErr>>
    /\ UNCHANGED notStreaming

\* sem.Acquire(ctx, 1) of a page task: a permit when one is free, ctx.Err() when
\* the context is done. With both, the outcome depends on the order the
\* semaphore sees them in.
SemCanAcquire == semCur < MaxConcurrency

\* indexPodPage: the keys of a page that pass the filters.
indexPodPage(p) == {PodPage(p)[i] : i \in 1..Len(PodPage(p))}

\* The index task of pod page p: sem.Acquire.
indexTaskAcquire(p) ==
    /\ idxPc[p] = "acquire"
    /\ \/ /\ SemCanAcquire
          /\ semCur' = semCur + 1
          /\ idxPc' = [idxPc EXCEPT ![p] = "index"]
       \/ /\ ctxDone
          /\ idxPc' = [idxPc EXCEPT ![p] = "ret"]
          /\ UNCHANGED semCur
    /\ UNCHANGED <<ctxDone, parentCancelled, gErr, podChan, podChanClosed, metricsChan,
                   metricsChanClosed, resultChan, resultChanClosed, mainPc, spPc,
                   spToken, spErr, smPc, smToken, smErr, corrPc, metPc, metPos,
                   podIndex, recvErr>>
    /\ UNCHANGED notStreaming

\* The index task of pod page p: indexPodPage, the deferred sem.Release, return nil.
indexTaskRun(p) ==
    /\ idxPc[p] = "index"
    /\ podIndex' = podIndex \cup indexPodPage(p)
    /\ semCur' = semCur - 1
    /\ idxPc' = [idxPc EXCEPT ![p] = "done"]
    /\ UNCHANGED <<ctxDone, parentCancelled, gErr, podChan, podChanClosed, metricsChan,
                   metricsChanClosed, resultChan, resultChanClosed, mainPc, spPc,
                   spToken, spErr, smPc, smToken, smErr, corrPc, metPc, metPos,
                   recvErr>>
    /\ UNCHANGED notStreaming

\* The index task of pod page p has returned the context's error to the errgroup.
indexTaskReturn(p) ==
    /\ idxPc[p] = "ret"
    /\ GroupReturn(ErrCanceled)
    /\ idxPc' = [idxPc EXCEPT ![p] = "done"]
    /\ UNCHANGED <<parentCancelled, podChan, podChanClosed, metricsChan,
                   metricsChanClosed, resultChan, resultChanClosed, mainPc, spPc,
                   spToken, spErr, smPc, smToken, smErr, corrPc, metPc, metPos,
                   semCur, podIndex, recvErr>>
    /\ UNCHANGED notStreaming

\* The task of metrics page m: sem.Acquire.
metricsTaskAcquire(m) ==
    /\ metPc[m] = "acquire"
    /\ \/ /\ SemCanAcquire
          /\ semCur' = semCur + 1
          /\ metPc' = [metPc EXCEPT ![m] = "lookup"]
       \/ /\ ctxDone
          /\ metPc' = [metPc EXCEPT ![m] = "ret"]
          /\ UNCHANGED semCur
    /\ UNCHANGED <<ctxDone, parentCancelled, gErr, podChan, podChanClosed, metricsChan,
                   metricsChanClosed, resultChan, resultChanClosed, mainPc, spPc,
                   spToken, spErr, smPc, smToken, smErr, corrPc, idxPc, metPos,
                   podIndex, recvErr>>
    /\ UNCHANGED notStreaming

\* processMetricsPage moves to the next sample of page m, or past the last one
\* returns nil (the deferred sem.Release runs).
metricsTaskAdvance(m) ==
    IF metPos[m] = PageLen
       THEN /\ metPc' = [metPc EXCEPT ![m] = "done"]
            /\ semCur' = semCur - 1
            /\ UNCHANGED metPos
       ELSE /\ metPc' = [metPc EXCEPT ![m] = "lookup"]
            /\ metPos' = [metPos EXCEPT ![m] = metPos[m] + 1]
            /\ UNCHANGED semCur

\* processMetricsPage: podIndex.Load for the current sample; a sample with no
\* indexed pod is skipped, one with an indexed pod yields a row to send.
processMetricsPageLookup(m) ==
    /\ metPc[m] = "lookup"
    /\ IF MetricsPage(m)[metPos[m]] \in podIndex
          THEN /\ metPc' = [metPc EXCEPT ![m] = "send"]
               /\ UNCHANGED <<metPos, semCur>>
          ELSE metricsTaskAdvance(m)
    /\ UNCHANGED <<ctxDone, parentCancelled, gErr, podChan, podChanClosed, metricsChan,
                   metricsChanClosed, resultChan, resultChanClosed, mainPc, spPc,
                   spToken, spErr, smPc, smToken, smErr, corrPc, idxPc, podIndex,
                   recvErr>>
    /\ UNCHANGED notStreaming

\* A metric-page task with no deferred sem.Release on its error return.
processMetricsPageSendNoRelease(m) ==
    /\ metPc[m] = "send"
    /\ \/ /\ Len(resultChan) < BufferSize
          /\ resultChan' = Append(resultChan, Row(MetricsPage(m)[metPos[m]]))
          /\ metricsTaskAdvance(m)
       \/ /\ ctxDone
          /\ metPc' = [metPc EXCEPT ![m] = "ret"]
          /\ UNCHANGED <<resultChan, metPos, semCur>>
    /\ UNCHANGED <<ctxDone, parentCancelled, gErr, podChan, podChanClosed, metricsChan,
                   metricsChanClosed, resultChanClosed, mainPc, spPc, spToken, spErr,
                   smPc, smToken, smErr, corrPc, idxPc, podIndex, recvErr>>
    /\ UNCHANGED notStreaming

\* processMetricsPage: the select that sends the row or sees ctx.Done() and
\* returns ctx.Err() (the deferred sem.Release runs).
processMetricsPageSend(m) ==
    /\ metPc[m] = "send"
    /\ \/ /\ Len(resultChan) < BufferSize
          /\ resultChan' = Append(resultChan, Row(MetricsPage(m)[metPos[m]]))
          /\ metricsTaskAdvance(m)
       \/ /\ ctxDone
          /\ metPc' = [metPc EXCEPT ![m] = "ret"]
          /\ semCur' = semCur - 1
          /\ UNCHANGED <<resultChan, metPos>>
    /\ UNCHANGED <<ctxDone, parentCancelled, gErr, podChan, podChanClosed, metricsChan,
                   metricsChanClosed, resultChanClosed, mainPc, spPc, spToken, spErr,
                   smPc, smToken, smErr, corrPc, idxPc, podIndex, recvErr>>
    /\ UNCHANGED notStreaming

\* The task of metrics page m has returned the context's error to the errgroup.
metricsTaskReturn(m) ==
    /\ metPc[m] = "ret"
    /\ GroupReturn(ErrCanceled)
    /\ metPc' = [metPc EXCEPT ![m] = "done"]
    /\ UNCHANGED <<parentCancelled, podChan, podChanClosed, metricsChan,
                   metricsChanClosed, resultChan, resultChanClosed, mainPc, spPc,
                   spToken, spErr, smPc, smToken, smErr, corrPc, idxPc, metPos,
                   semCur, podIndex, recvErr>>
    /\ UNCHANGED notStreaming

\* A Wait that waits for the three tasks processStreamingData started only.
DirectTasksReturned ==
    /\ spPc = "done"
    /\ smPc = "done"
    /\ corrPc = "done"

\* Every task the errgroup was given has returned.
AllTasksReturned ==
    /\ spPc = "done"
    /\ smPc = "done"
    /\ corrPc = "done"
    /\ \A p \in PodPageNos : idxPc[p] \in {"none", "done"}
    /\ \A m \in MetPageNos : metPc[m] \in {"none", "done"}

\* The select of CollectStreaming's goroutine after g.Wait returned err: both of
\* its cases can be chosen when resultChan has room, only ctx.Done() when not.
reportError(err) ==
    \/ /\ Len(resultChan) < BufferSize
       /\ resultChan' = Append(resultChan, ErrorResult(err))
    \/ /\ ctxDone'
       /\ UNCHANGED resultChan

\* CollectStreaming's goroutine: g.Wait returns once every task has returned and
\* cancels the derived context; a non-nil error goes through the select; the
\* deferred close(resultChan) runs.
CollectStreamingWait ==
    /\ mainPc = "wait"
    /\ AllTasksReturned
    /\ ctxDone' = TRUE
    /\ IF gErr # NoErr
          THEN reportError(gErr)
          ELSE UNCHANGED resultChan
    /\ resultChanClosed' = TRUE
    /\ mainPc' = "closed"
    /\ UNCHANGED <<parentCancelled, gErr, podChan, podChanClosed, metricsChan,
                   metricsChanClosed, spPc, spToken, spErr, smPc, smToken, smErr,
                   corrPc, idxPc, metPc, metPos, semCur, podIndex, recvErr>>
    /\ UNCHANGED notStreaming

\* The consumer of the outbound channel receives one element.
ConsumerReceive ==
    /\ resultChan # <<>>
    /\ resultChan' = Tail(resultChan)
    /\ recvErr' = (recvErr \/ Head(resultChan).kind = "error")
    /\ UNCHANGED <<ctxDone, parentCancelled, gErr, podChan, podChanClosed, metricsChan,
                   metricsChanClosed, resultChanClosed, mainPc, spPc, spToken, spErr,
                   smPc, smToken, smErr, corrPc, idxPc, metPc, metPos, semCur,
                   podIndex>>
    /\ UNCHANGED notStreaming

\* The caller cancels the context it passed in (or its deadline passes) while
\* tasks of the run are still running.
CallerCancel ==
    /\ mainPc = "wait"
    /\ ~AllTasksReturned
    /\ ~parentCancelled
    /\ parentCancelled' = TRUE
    /\ ctxDone' = TRUE
    /\ UNCHANGED <<gErr, podChan, podChanClosed, metricsChan, metricsChanClosed,
                   resultChan, resultChanClosed, mainPc, spPc, spToken, spErr, smPc,
                   smToken, smErr, corrPc, idxPc, metPc, metPos, semCur, podIndex,
                   recvErr>>
    /\ UNCHANGED notStreaming

NextFetchers ==
    \/ streamPodsList
    \/ streamPodsSend
    \/ streamPodsReturn
    \/ streamMetricsList
    \/ streamMetricsSend
    \/ streamMetricsReturn

NextCorrelate ==
    \/ correlateRangePods
    \/ correlateRangeMetrics
    \/ \E p \in PodPageNos : indexTaskAcquire(p)
    \/ \E p \in PodPageNos : indexTaskRun(p)
    \/ \E p \in PodPageNos : indexTaskReturn(p)
    \/ \E m \in MetPageNos : metricsTaskAcquire(m)
    \/ \E m \in MetPageNos : processMetricsPageLookup(m)
    \/ \E m \in MetPageNos : processMetricsPageSend(m)
    \/ \E m \in MetPageNos : metricsTaskReturn(m)

NextStreaming ==
    \/ processStreamingData
    \/ NextFetchers
    \/ NextCorrelate
    \/ CollectStreamingWait
    \/ ConsumerReceive
    \/ CallerCancel

----------------------------------------------------------------------------
\* Collector.Collect and the row computation.

\* A container's Resources.Limits and a container's Usage are resource lists:
\* functions from some of "memory" and "cpu" to a quantity (bytes, millicores).
\* Row.UsageMi and Row.LimitMi hold the byte count; the value in Mi is that
\* count / 2^20, which float64 represents exactly for the counts used here.
\* Row.Percentage holds usage * 100 over limit as a fraction.

RECURSIVE SumLimits(_, _)
\* NewPodSpecInfo's running sum of the limits of one resource over the containers.
SumLimits(containers, res) ==
    IF containers = <<>> THEN 0
    ELSE LET c == containers[Len(containers)]
             rest == SubSeq(containers, 1, Len(containers) - 1)
         IN SumLimits(rest, res) + (IF res \in DOMAIN c.limits THEN c.limits[res] ELSE 0)

\* NewPodSpecInfo's per-container map of one resource: a later container of the
\* same name overwrites an earlier one.
ContainerLimits(containers, res) ==
    LET has(n) == {i \in 1..Len(containers) :
                      containers[i].name = n /\ res \in DOMAIN containers[i].limits}
        names == {containers[i].name : i \in {j \in 1..Len(containers) :
                                                  res \in DOMAIN containers[j].limits}}
    IN [n \in names |->
           containers[CHOOSE i \in has(n) : \A j \in has(n) : j <= i].limits[res]]

NewPodSpecInfo(pod) ==
    [MemoryLimitMi |-> SumLimits(pod.containers, "memory"),
     CPULimitMc |-> SumLimits(pod.containers, "cpu"),
     ContainerMemoryLimits |-> ContainerLimits(pod.containers, "memory"),
     ContainerCPULimits |-> ContainerLimits(pod.containers, "cpu")]

HasMemoryLimit(podInfo) == podInfo.MemoryLimitMi > 0
HasCPULimit(podInfo) == podInfo.CPULimitMc > 0

ContainerHasMemoryLimit(podInfo, containerName) ==
    /\ containerName \in DOMAIN podInfo.ContainerMemoryLimits
    /\ podInfo.ContainerMemoryLimits[containerName] > 0

ContainerHasCPULimit(podInfo, containerName) ==
    /\ containerName \in DOMAIN podInfo.ContainerCPULimits
    /\ podInfo.ContainerCPULimits[containerName] > 0

Percentage(usage, limit) == [num |-> usage * 100, den |-> limit]

RECURSIVE TotalUsageMiAll(_, _)
\* A loop that adds the memory usage of every container of the sample.
TotalUsageMiAll(containers, podInfo) ==
    IF containers = <<>> THEN 0
    ELSE LET c == containers[Len(containers)]
             rest == SubSeq(containers, 1, Len(containers) - 1)
         IN TotalUsageMiAll(rest, podInfo)
              + (IF "memory" \in DOMAIN c.usage THEN c.usage["memory"] ELSE 0)

RECURSIVE TotalUsageMi(_, _)
\* computePodMemoryRow's loop: the memory usage of the containers that have a
\* memory limit.
TotalUsageMi(containers, podInfo) ==
    IF containers = <<>> THEN 0
    ELSE LET c == containers[Len(containers)]
             rest == SubSeq(containers, 1, Len(containers) - 1)
         IN TotalUsageMi(rest, podInfo)
              + (IF ContainerHasMemoryLimit(podInfo, c.name) /\ "memory" \in DOMAIN c.usage
                    THEN c.usage["memory"] ELSE 0)

RECURSIVE TotalUsageMc(_, _)
\* computePodCPURow's loop.
TotalUsageMc(containers, podInfo) ==
    IF containers = <<>> THEN 0
    ELSE LET c == containers[Len(containers)]
             rest == SubSeq(containers, 1, Len(containers) - 1)
         IN TotalUsageMc(rest, podInfo)
              + (IF ContainerHasCPULimit(podInfo, c.name) /\ "cpu" \in DOMAIN c.usage
                    THEN c.usage["cpu"] ELSE 0)

\* A computePodMemoryRow without the test of HasMemoryLimit.
computePodMemoryRowUnchecked(pm, podInfo) ==
    LET totalUsageMi == TotalUsageMi(pm.containers, podInfo)
    IN <<[Namespace |-> pm.ns, Name |-> pm.name,
          UsageMi |-> totalUsageMi, LimitMi |-> podInfo.MemoryLimitMi,
          UsageMc |-> 0, LimitMc |-> 0,
          Percentage |-> Percentage(totalUsageMi, podInfo.MemoryLimitMi)]>>

\* The compute functions return a *Row or nil: here a sequence of one row or none.
computePodMemoryRow(pm, podInfo) ==
    IF ~HasMemoryLimit(podInfo) THEN <<>>
    ELSE LET totalUsageMi == TotalUsageMi(pm.containers, podInfo)
         IN <<[Namespace |-> pm.ns, Name |-> pm.name,
               UsageMi |-> totalUsageMi, LimitMi |-> podInfo.MemoryLimitMi,
               UsageMc |-> 0, LimitMc |-> 0,
               Percentage |-> Percentage(totalUsageMi, podInfo.MemoryLimitMi)]>>

computePodCPURow(pm, podInfo) ==
    IF ~HasCPULimit(podInfo) THEN <<>>
    ELSE LET totalUsageMc == TotalUsageMc(pm.containers, podInfo)
         IN <<[Namespace |-> pm.ns, Name |-> pm.name,
               UsageMi |-> 0, LimitMi |-> 0,
               UsageMc |-> totalUsageMc, LimitMc |-> podInfo.CPULimitMc,
               Percentage |-> Percentage(totalUsageMc, podInfo.CPULimitMc)]>>

computePodRow(pm, podInfo, resource) ==
    CASE resource = "memory" -> computePodMemoryRow(pm, podInfo)
      [] resource = "cpu" -> computePodCPURow(pm, podInfo)
      [] OTHER -> <<>>

\* A computeContainerMemoryRow that accepts a limit of zero.
computeContainerMemoryRowAnyLimit(namespace, containerName, container, podInfo) ==
    IF container.name \notin DOMAIN podInfo.ContainerMemoryLimits
       THEN <<>>
       ELSE LET limitMi == podInfo.ContainerMemoryLimits[container.name]
                usageMi == IF "memory" \in DOMAIN container.usage
                              THEN container.usage["memory"] ELSE 0
            IN <<[Namespace |-> namespace, Name |-> containerName,
                  UsageMi |-> usageMi, LimitMi |-> limitMi,
                  UsageMc |-> 0, LimitMc |-> 0,
                  Percentage |-> Percentage(usageMi, limitMi)]>>

computeContainerMemoryRow(namespace, containerName, container, podInfo) ==
    IF ~(container.name \in DOMAIN podInfo.ContainerMemoryLimits
          /\ podInfo.ContainerMemoryLimits[container.name] > 0)
       THEN <<>>
       ELSE LET limitMi == podInfo.ContainerMemoryLimits[container.name]
                usageMi == IF "memory" \in DOMAIN container.usage
                              THEN container.usage["memory"] ELSE 0
            IN <<[Namespace |-> namespace, Name |-> containerName,
                  UsageMi |-> usageMi, LimitMi |-> limitMi,
                  UsageMc |-> 0, LimitMc |-> 0,
                  Percentage |-> Percentage(usageMi, limitMi)]>>

computeContainerCPURow(namespace, containerName, container, podInfo) ==
    IF ~(container.name \in DOMAIN podInfo.ContainerCPULimits
          /\ podInfo.ContainerCPULimits[container.name] > 0)
       THEN <<>>
       ELSE LET limitMc == podInfo.ContainerCPULimits[container.name]
                usageMc == IF "cpu" \in DOMAIN container.usage
                              THEN container.usage["cpu"] ELSE 0
            IN <<[Namespace |-> namespace, Name |-> containerName,
                  UsageMi |-> 0, LimitMi |-> 0,
                  UsageMc |-> usageMc, LimitMc |-> limitMc,
                  Percentage |-> Percentage(usageMc, limitMc)]>>

RECURSIVE ContainerRowsOfContainerFirst(_, _, _, _)
\* A loop that names the rows container:pod.
ContainerRowsOfContainerFirst(pm, podInfo, resource, n) ==
    IF n = 0 THEN <<>>
    ELSE LET container == pm.containers[n]
             containerName == container.name \o ":" \o pm.name
         IN ContainerRowsOfContainerFirst(pm, podInfo, resource, n - 1)
              \o (CASE resource = "memory" ->
                         computeContainerMemoryRow(pm.ns, containerName, container, podInfo)
                    [] resource = "cpu" ->
                         computeContainerCPURow(pm.ns, containerName, container, podInfo)
                    [] OTHER -> <<>>)

RECURSIVE ContainerRowsOf(_, _, _, _)
\* computeContainerRows' loop over the first n containers of pm.
ContainerRowsOf(pm, podInfo, resource, n) ==
    IF n = 0 THEN <<>>
    ELSE LET container == pm.containers[n]
             containerName == pm.name \o ":" \o container.name
         IN ContainerRowsOf(pm, podInfo, resource, n - 1)
              \o (CASE resource = "memory" ->
                         computeContainerMemoryRow(pm.ns, containerName, container, podInfo)
                    [] resource = "cpu" ->
                         computeContainerCPURow(pm.ns, containerName, container, podInfo)
                    [] OTHER -> <<>>)

computeContainerRows(pm, podInfo, resource) ==
    ContainerRowsOf(pm, podInfo, resource, Len(pm.containers))

RECURSIVE computeUsageRows(_, _, _)
\* computeUsageRows: the rows of the metrics whose key is in the index, in the
\* order of the metrics.
computeUsageRows(podMetrics, podIdx, o) ==
    IF podMetrics = <<>> THEN <<>>
    ELSE LET pm == podMetrics[Len(podMetrics)]
             rest == SubSeq(podMetrics, 1, Len(podMetrics) - 1)
             key == pm.ns \o "/" \o pm.name
         IN computeUsageRows(rest, podIdx, o)
              \o (IF key \notin DOMAIN podIdx THEN <<>>
                  ELSE CASE o.Mode = "pods" -> computePodRow(pm, podIdx[key], o.Resource)
                         [] o.Mode = "containers" ->
                              computeContainerRows(pm, podIdx[key], o.Resource)
                         [] OTHER -> <<>>)

\* labels.Parse fails on a selector that is not well formed.
SelectorParses(selector) == selector # "app in"

\* Selector.Matches for the selectors used here: the empty selector matches
\* everything, "k=v" matches the pods that carry that label.
SelectorMatches(selector, podLabels) == selector = "" \/ selector \in podLabels

\* correlateData's index: the pods that pass the namespace exclusion and the
\* label selector, by key; a later pod of the same key overwrites an earlier one.
BuildPodIndex(pods, o) ==
    LET keep == {i \in 1..Len(pods) :
                    /\ pods[i].ns \notin o.ExcludeNamespaces
                    /\ SelectorMatches(o.LabelSelector, pods[i].labels)}
        keyOf(i) == pods[i].ns \o "/" \o pods[i].name
        keys == {keyOf(i) : i \in keep}
    IN [k \in keys |->
           NewPodSpecInfo(pods[CHOOSE i \in keep :
                                  keyOf(i) = k /\ \A j \in keep : keyOf(j) = k => j <= i])]

\* correlateData's results <<rows, err>>.
correlateData(pods, podMetrics, o) ==
    IF ~SelectorParses(o.LabelSelector) /\ o.LabelSelector # ""
       THEN <<<<>>, "invalid label selector">>
       ELSE <<computeUsageRows(podMetrics, BuildPodIndex(pods, o), o), NoErr>>

ErrFetchPods == "failed to fetch pods: failed to list pods"
ErrFetchPodMetrics == "failed to fetch pod metrics: failed to list pod metrics"
ErrNoPods == "no pods found - check namespace and label selector"
ErrNoMetrics == "no pod metrics found - ensure metrics-server is installed and running"

\* What the list calls can return.
PodSamples ==
    { [ns |-> "default", name |-> "p1", labels |-> {"app=web", "tier=db"},
       containers |-> <<[name |-> "c1", limits |-> [memory |-> 512]]>>],
      [ns |-> "default", name |-> "p1", labels |-> {},
       containers |-> <<[name |-> "c1", limits |-> [memory |-> 512, cpu |-> 500]],
                        [name |-> "c2", limits |-> [cpu |-> 0]]>>],
      [ns |-> "kube-system", name |-> "p2", labels |-> {"app=web"},
       containers |-> <<[name |-> "c1", limits |-> [memory |-> 256, cpu |-> 250]]>>] }

MetricSamples ==
    { [ns |-> "default", name |-> "p1",
       containers |-> <<[name |-> "c1", usage |-> [memory |-> 256, cpu |-> 100]]>>],
      [ns |-> "default", name |-> "p1",
       containers |-> <<[name |-> "c1", usage |-> [memory |-> 128]],
                        [name |-> "c2", usage |-> [memory |-> 64, cpu |-> 50]]>>],
      [ns |-> "kube-system", name |-> "p2",
       containers |-> <<[name |-> "c1", usage |-> [memory |-> 300, cpu |-> 10]]>>],
      [ns |-> "default", name |-> "p3",
       containers |-> <<[name |-> "c1", usage |-> [memory |-> 1, cpu |-> 1]]>>] }

MaxItems == 2           \* items a list call returns at most

SeqsUpTo(S, n) == UNION {[1..k -> S] : k \in 0..n}

OptionsSet ==
    [Mode : {"pods", "containers"},
     Resource : {"memory", "cpu"},
     ExcludeNamespaces : {{}, {"kube-system"}},
     LabelSelector : {"", "app=web", "app in"}]

NoOptions ==
    [Mode |-> "pods", Resource |-> "memory", ExcludeNamespaces |-> {},
     LabelSelector |-> ""]

InitCollectIdle ==
    /\ serverPods = <<>>
    /\ serverMetrics = <<>>
    /\ opts = NoOptions
    /\ cPc = "idle"
    /\ cCtxDone = FALSE
    /\ cgErr = NoErr
    /\ fpPc = "idle" /\ fpErr = NoErr
    /\ fmPc = "idle" /\ fmErr = NoErr
    /\ podsList = <<>>
    /\ metricsList = <<>>
    /\ collectRows = <<>>
    /\ collectErr = NoErr

InitCollect ==
    /\ serverPods \in SeqsUpTo(PodSamples, MaxItems)
    /\ serverMetrics \in SeqsUpTo(MetricSamples, MaxItems)
    /\ opts \in OptionsSet
    /\ cPc = "idle"
    /\ cCtxDone = FALSE
    /\ cgErr = NoErr
    /\ fpPc = "idle" /\ fpErr = NoErr
    /\ fmPc = "idle" /\ fmErr = NoErr
    /\ podsList = <<>>
    /\ metricsList = <<>>
    /\ collectRows = <<>>
    /\ collectErr = NoErr

\* Collect starts the two fetches under one errgroup.
CollectStart ==
    /\ cPc = "idle"
    /\ cPc' = "wait"
    /\ fpPc' = "run"
    /\ fmPc' = "run"
    /\ UNCHANGED <<serverPods, serverMetrics, opts, cCtxDone, cgErr, fpErr, fmErr,
                   podsList, metricsList, collectRows, collectErr>>
    /\ UNCHANGED notCollect

\* The first goroutine: fetchPods fails (any call may; a call on a done context
\* does) and the wrapped error goes to the errgroup, or it returns the items.
CollectFetchPods ==
    /\ fpPc = "run"
    /\ fpPc' = "done"
    /\ \/ /\ ~cCtxDone
          /\ podsList' = serverPods
          /\ UNCHANGED <<fpErr, cgErr, cCtxDone>>
       \/ /\ fpErr' = ErrFetchPods
          /\ cgErr' = IF cgErr = NoErr THEN ErrFetchPods ELSE cgErr
          /\ cCtxDone' = TRUE
          /\ UNCHANGED podsList
    /\ UNCHANGED <<serverPods, serverMetrics, opts, cPc, fmPc, fmErr, metricsList,
                   collectRows, collectErr>>
    /\ UNCHANGED notCollect

\* The second goroutine: fetchPodMetrics.
CollectFetchPodMetrics ==
    /\ fmPc = "run"
    /\ fmPc' = "done"
    /\ \/ /\ ~cCtxDone
          /\ metricsList' = serverMetrics
          /\ UNCHANGED <<fmErr, cgErr, cCtxDone>>
       \/ /\ fmErr' = ErrFetchPodMetrics
          /\ cgErr' = IF cgErr = NoErr THEN ErrFetchPodMetrics ELSE cgErr
          /\ cCtxDone' = TRUE
          /\ UNCHANGED metricsList
    /\ UNCHANGED <<serverPods, serverMetrics, opts, cPc, fpPc, fpErr, podsList,
                   collectRows, collectErr>>
    /\ UNCHANGED notCollect

\* Collect after g.Wait returned err: its results <<rows, err>>.
\* A Collect that goes on to correlate whatever the fetches left behind.
CollectResultIgnoringErr(err) ==
    IF Len(podsList) = 0 THEN <<<<>>, ErrNoPods>>
    ELSE IF Len(metricsList) = 0 THEN <<<<>>, ErrNoMetrics>>
    ELSE correlateData(podsList, metricsList, opts)

CollectResult(err) ==
    IF err # NoErr THEN <<<<>>, err>>
    ELSE IF Len(podsList) = 0 THEN <<<<>>, ErrNoPods>>
    ELSE IF Len(metricsList) = 0 THEN <<<<>>, ErrNoMetrics>>
    ELSE correlateData(podsList, metricsList, opts)

\* g.Wait returns once both fetches have returned; Collect returns.
CollectWait ==
    /\ cPc = "wait"
    /\ fpPc = "done"
    /\ fmPc = "done"
    /\ cPc' = "done"
    /\ cCtxDone' = TRUE
    /\ collectRows' = CollectResult(cgErr)[1]
    /\ collectErr' = CollectResult(cgErr)[2]
    /\ UNCHANGED <<serverPods, serverMetrics, opts, cgErr, fpPc, fpErr, fmPc, fmErr,
                   podsList, metricsList>>
    /\ UNCHANGED notCollect

\* The caller's timeout passes while Collect waits.
CollectTimeout ==
    /\ cPc = "wait"
    /\ ~cCtxDone
    /\ cCtxDone' = TRUE
    /\ UNCHANGED <<serverPods, serverMetrics, opts, cPc, cgErr, fpPc, fpErr, fmPc,
                   fmErr, podsList, metricsList, collectRows, collectErr>>
    /\ UNCHANGED notCollect

NextCollect ==
    \/ CollectStart
    \/ CollectFetchPods
    \/ CollectFetchPodMetrics
    \/ CollectWait
    \/ CollectTimeout

----------------------------------------------------------------------------
\* resilience.CircuitBreaker. Every atomic operation of Execute is one step of
\* its caller.

NumCallers == 2         \* goroutines calling Execute
MaxFailures == 2        \* cb.maxFailures
TicksPerSecond == 2     \* clock ticks per second
TimeoutTicks == 2       \* cb.timeout, in ticks
MaxTime == 4            \* the clock stops here
SuccessThreshold == 3   \* successes that close a half-open circuit

Callers == 1..NumCallers

\* failureCount is not let past this.
FailureCap == MaxFailures + 1

ErrOpen == "circuit breaker is open"
ErrOperation == "operation failed"

\* time.Now().Unix(): whole seconds.
Unix(t) == t \div TicksPerSecond

\* int64(cb.timeout.Seconds()): whole seconds.
TimeoutSeconds == TimeoutTicks \div TicksPerSecond

InitBreakerIdle ==
    /\ currentState = "Closed"
    /\ failureCount = 0
    /\ lastFailure = 0
    /\ successCount = 0
    /\ now = 0
    /\ exPc = [c \in Callers |-> "idle"]
    /\ exState = [c \in Callers |-> "none"]
    /\ exResult = [c \in Callers |-> "none"]
    /\ lastFailureAt = 0
    /\ halfOpenStreak = 0
    /\ failuresInRow = 0

InitBreaker == InitBreakerIdle

\* Execute returns r to caller c.
ExecuteReturns(c, r) ==
    /\ exPc' = [exPc EXCEPT ![c] = "idle"]
    /\ exResult' = [exResult EXCEPT ![c] = r]

\* Caller c calls Execute.
ExecuteCall(c) ==
    /\ exPc[c] = "idle"
    /\ exPc' = [exPc EXCEPT ![c] = "canExecute"]
    /\ exState' = [exState EXCEPT ![c] = "none"]
    /\ exResult' = [exResult EXCEPT ![c] = "none"]
    /\ UNCHANGED <<currentState, failureCount, lastFailure, successCount, now>>
    /\ UNCHANGED notBreaker

\* canExecute: state := atomic.LoadInt32(&cb.currentState) and the switch.
canExecuteLoad(c) ==
    /\ exPc[c] = "canExecute"
    /\ exState' = [exState EXCEPT ![c] = currentState]
    /\ exPc' = [exPc EXCEPT ![c] = IF currentState = "Open" THEN "timeout" ELSE "fn"]
    /\ UNCHANGED <<currentState, failureCount, lastFailure, successCount, now,
                   exResult>>
    /\ UNCHANGED notBreaker

\* canExecute, case StateOpen: has the timeout passed since lastFailure?
TimeoutPassed == Unix(now) - lastFailure >= TimeoutSeconds

canExecuteTimeout(c) ==
    /\ exPc[c] = "timeout"
    /\ IF TimeoutPassed
          THEN /\ exPc' = [exPc EXCEPT ![c] = "cas"]
               /\ UNCHANGED exResult
          ELSE ExecuteReturns(c, ErrOpen)
    /\ UNCHANGED <<currentState, failureCount, lastFailure, successCount, now,
                   exState>>
    /\ UNCHANGED notBreaker

\* canExecute, case StateOpen: CompareAndSwapInt32(currentState, Open, HalfOpen).
\* A canExecute that returns true whether or not the compare-and-swap succeeds.
canExecuteIgnoringCAS(c) ==
    /\ exPc[c] = "cas"
    /\ currentState' = IF currentState = "Open" THEN "HalfOpen" ELSE currentState
    /\ exPc' = [exPc EXCEPT ![c] = "fn"]
    /\ UNCHANGED exResult
    /\ UNCHANGED <<failureCount, lastFailure, successCount, now, exState>>
    /\ UNCHANGED notBreaker

canExecuteCAS(c) ==
    /\ exPc[c] = "cas"
    /\ IF currentState = "Open"
          THEN /\ currentState' = "HalfOpen"
               /\ exPc' = [exPc EXCEPT ![c] = "fn"]
               /\ UNCHANGED exResult
          ELSE /\ ExecuteReturns(c, ErrOpen)
               /\ UNCHANGED currentState
    /\ UNCHANGED <<failureCount, lastFailure, successCount, now, exState>>
    /\ UNCHANGED notBreaker

\* Execute: err := fn(). The wrapped operation succeeds or fails.
ExecuteFn(c) ==
    /\ exPc[c] = "fn"
    /\ \/ /\ exPc' = [exPc EXCEPT ![c] = "recordSuccess"]
       \/ /\ failureCount < FailureCap
          /\ exPc' = [exPc EXCEPT ![c] = "recordFailure"]
    /\ UNCHANGED <<currentState, failureCount, lastFailure, successCount, now,
                   exState, exResult>>
    /\ UNCHANGED notBreaker

\* A recordFailure that opens the breaker one failure late.
FailuresExceeded(failures) == failures > MaxFailures

\* recordFailure's test of the count it read back from the add.
FailuresReached(failures) == failures >= MaxFailures

\* recordFailure: failures := atomic.AddInt32(&cb.failureCount, 1).
recordFailureAdd(c) ==
    /\ exPc[c] = "recordFailure"
    /\ failureCount' = failureCount + 1
    /\ exPc' = [exPc EXCEPT ![c] = IF FailuresReached(failureCount + 1)
                                      THEN "stampThenOpen" ELSE "stamp"]
    /\ UNCHANGED <<currentState, lastFailure, successCount, now, exState, exResult>>
    /\ UNCHANGED notBreaker

\* recordFailure: atomic.StoreInt64(&cb.lastFailure, time.Now().Unix()).
recordFailureStamp(c) ==
    /\ exPc[c] \in {"stamp", "stampThenOpen"}
    /\ lastFailure' = Unix(now)
    /\ IF exPc[c] = "stampThenOpen"
          THEN /\ exPc' = [exPc EXCEPT ![c] = "open"]
               /\ UNCHANGED exResult
          ELSE ExecuteReturns(c, ErrOperation)
    /\ UNCHANGED <<currentState, failureCount, successCount, now, exState>>
    /\ UNCHANGED notBreaker

\* recordFailure: atomic.StoreInt32(&cb.currentState, int32(StateOpen)).
recordFailureOpen(c) ==
    /\ exPc[c] = "open"
    /\ currentState' = "Open"
    /\ exPc' = [exPc EXCEPT ![c] = "openReset"]
    /\ UNCHANGED <<failureCount, lastFailure, successCount, now, exState, exResult>>
    /\ UNCHANGED notBreaker

\* recordFailure: atomic.StoreInt32(&cb.successCount, 0); Execute returns err.
recordFailureReset(c) ==
    /\ exPc[c] = "openReset"
    /\ successCount' = 0
    /\ ExecuteReturns(c, ErrOperation)
    /\ UNCHANGED <<currentState, failureCount, lastFailure, now, exState>>
    /\ UNCHANGED notBreaker

\* recordSuccess: atomic.StoreInt32(&cb.failureCount, 0).
recordSuccessReset(c) ==
    /\ exPc[c] = "recordSuccess"
    /\ failureCount' = 0
    /\ exPc' = [exPc EXCEPT ![c] = "successLoad"]
    /\ UNCHANGED <<currentState, lastFailure, successCount, now, exState, exResult>>
    /\ UNCHANGED notBreaker

\* recordSuccess: state := atomic.LoadInt32(&cb.currentState); nothing more is
\* done unless it is HalfOpen.
recordSuccessLoad(c) ==
    /\ exPc[c] = "successLoad"
    /\ IF currentState = "HalfOpen"
          THEN /\ exPc' = [exPc EXCEPT ![c] = "successAdd"]
               /\ UNCHANGED exResult
          ELSE ExecuteReturns(c, NoErr)
    /\ UNCHANGED <<currentState, failureCount, lastFailure, successCount, now,
                   exState>>
    /\ UNCHANGED notBreaker

\* recordSuccess's test of the count it read back from the add.
SuccessesReached(successes) == successes >= SuccessThreshold

\* recordSuccess: successCount := atomic.AddInt32(&cb.successCount, 1).
recordSuccessAdd(c) ==
    /\ exPc[c] = "successAdd"
    /\ successCount' = successCount + 1
    /\ IF SuccessesReached(successCount + 1)
          THEN /\ exPc' = [exPc EXCEPT ![c] = "close"]
               /\ UNCHANGED exResult
          ELSE ExecuteReturns(c, NoErr)
    /\ UNCHANGED <<currentState, failureCount, lastFailure, now, exState>>
    /\ UNCHANGED notBreaker

\* recordSuccess: atomic.StoreInt32(&cb.currentState, int32(StateClosed)).
recordSuccessClose(c) ==
    /\ exPc[c] = "close"
    /\ currentState' = "Closed"
    /\ exPc' = [exPc EXCEPT ![c] = "closeReset"]
    /\ UNCHANGED <<failureCount, lastFailure, successCount, now, exState, exResult>>
    /\ UNCHANGED notBreaker

\* recordSuccess: atomic.StoreInt32(&cb.successCount, 0); Execute returns nil.
recordSuccessZero(c) ==
    /\ exPc[c] = "closeReset"
    /\ successCount' = 0
    /\ ExecuteReturns(c, NoErr)
    /\ UNCHANGED <<currentState, failureCount, lastFailure, now, exState>>
    /\ UNCHANGED notBreaker

\* The clock advances by one tick.
Tick ==
    /\ now < MaxTime
    /\ now' = now + 1
    /\ UNCHANGED <<currentState, failureCount, lastFailure, successCount, exPc,
                   exState, exResult>>
    /\ UNCHANGED notBreaker

\* The history variables.
hvars == <<lastFailureAt, halfOpenStreak, failuresInRow>>

\* Concurrent callers; no history is kept.
NextBreaker ==
    \/ \E c \in Callers : ExecuteCall(c) /\ UNCHANGED hvars
    \/ \E c \in Callers : canExecuteLoad(c) /\ UNCHANGED hvars
    \/ \E c \in Callers : canExecuteTimeout(c) /\ UNCHANGED hvars
    \/ \E c \in Callers : canExecuteCAS(c) /\ UNCHANGED hvars
    \/ \E c \in Callers : ExecuteFn(c) /\ UNCHANGED hvars
    \/ \E c \in Callers : recordFailureAdd(c) /\ UNCHANGED hvars
    \/ \E c \in Callers : recordFailureStamp(c) /\ UNCHANGED hvars
    \/ \E c \in Callers : recordFailureOpen(c) /\ UNCHANGED hvars
    \/ \E c \in Callers : recordFailureReset(c) /\ UNCHANGED hvars
    \/ \E c \in Callers : recordSuccessReset(c) /\ UNCHANGED hvars
    \/ \E c \in Callers : recordSuccessLoad(c) /\ UNCHANGED hvars
    \/ \E c \in Callers : recordSuccessAdd(c) /\ UNCHANGED hvars
    \/ \E c \in Callers : recordSuccessClose(c) /\ UNCHANGED hvars
    \/ \E c \in Callers : recordSuccessZero(c) /\ UNCHANGED hvars
    \/ Tick /\ UNCHANGED hvars

\* One caller: each Execute call returns before the next one is made.
SeqCaller == CHOOSE c \in Callers : \A d \in Callers : c <= d

\* What a step of the one caller adds to the history: the outcome of fn(), the
\* tick at which recordFailure stamped lastFailure, and the successes recorded
\* in a row since canExecute moved the breaker to HalfOpen.
History ==
    LET from == exPc[SeqCaller]
        to == exPc'[SeqCaller]
    IN  /\ failuresInRow' =
              IF from = "fn" /\ to = "recordSuccess" THEN 0
              ELSE IF from = "fn" /\ to = "recordFailure" THEN failuresInRow + 1
              ELSE failuresInRow
        /\ lastFailureAt' =
              IF from \in {"stamp", "stampThenOpen"} /\ to # from THEN now
              ELSE lastFailureAt
        /\ halfOpenStreak' =
              IF from = "cas" /\ to = "fn" THEN 0
              ELSE IF from = "recordFailure" /\ to # from THEN 0
              ELSE IF from = "successAdd" /\ to # from THEN halfOpenStreak + 1
              ELSE halfOpenStreak

NextBreakerSeq ==
    \/ ExecuteCall(SeqCaller) /\ History
    \/ canExecuteLoad(SeqCaller) /\ History
    \/ canExecuteTimeout(SeqCaller) /\ History
    \/ canExecuteCAS(SeqCaller) /\ History
    \/ ExecuteFn(SeqCaller) /\ History
    \/ recordFailureAdd(SeqCaller) /\ History
    \/ recordFailureStamp(SeqCaller) /\ History
    \/ recordFailureOpen(SeqCaller) /\ History
    \/ recordFailureReset(SeqCaller) /\ History
    \/ recordSuccessReset(SeqCaller) /\ History
    \/ recordSuccessLoad(SeqCaller) /\ History
    \/ recordSuccessAdd(SeqCaller) /\ History
    \/ recordSuccessClose(SeqCaller) /\ History
    \/ recordSuccessZero(SeqCaller) /\ History
    \/ Tick /\ History

----------------------------------------------------------------------------
\* resilience.ResourcePool.

NumPoolCallers == 3     \* goroutines calling Acquire and Release
PoolConcurrency == 2    \* maxConcurrency: cap(rp.semaphore)
MaxMemoryMB == 2        \* rp.maxMemoryMB
MaxCost == 2            \* the largest estimatedMemMB asked for

PoolCallers == 1..NumPoolCallers

ErrInsufficientMemory == "resource pool: insufficient memory"

InitPoolIdle ==
    /\ currentMemMB = 0
    /\ semaphoreLen = 0
    /\ rpPc = [c \in PoolCallers |-> "idle"]
    /\ rpCost = [c \in PoolCallers |-> 0]
    /\ rpCtxDone = [c \in PoolCallers |-> FALSE]
    /\ rpResult = [c \in PoolCallers |-> "none"]

InitPool == InitPoolIdle

\* Acquire returns r to caller c; the caller keeps the cost of what it holds.
AcquireReturns(c, r) ==
    /\ rpPc' = [rpPc EXCEPT ![c] = IF r = NoErr THEN "held" ELSE "idle"]
    /\ rpResult' = [rpResult EXCEPT ![c] = r]
    /\ rpCost' = [rpCost EXCEPT ![c] = IF r = NoErr THEN rpCost[c] ELSE 0]
    /\ rpCtxDone' = [rpCtxDone EXCEPT ![c] = FALSE]

\* checkMemoryLimit: the 80% mark of maxMemoryMB.
SystemReserveMB == (MaxMemoryMB * 80) \div 100

\* checkMemoryLimit, with usedSystemMB the MB the Go runtime reports allocated.
checkMemoryLimit(requestedMB, usedSystemMB) ==
    /\ currentMemMB + requestedMB <= MaxMemoryMB
    /\ usedSystemMB < SystemReserveMB

\* The allocated MB the runtime may report: just under the 80% mark and at it.
UsedSystemMBs == {SystemReserveMB - 1, SystemReserveMB}

\* An Acquire that adds the cost to currentMemMB when the memory check passes,
\* before it has a slot.
AcquireCheckReserving(c, estimatedMemMB, usedSystemMB) ==
    /\ rpPc[c] = "idle"
    /\ IF checkMemoryLimit(estimatedMemMB, usedSystemMB)
          THEN /\ rpPc' = [rpPc EXCEPT ![c] = "select"]
               /\ rpCost' = [rpCost EXCEPT ![c] = estimatedMemMB]
               /\ rpCtxDone' = [rpCtxDone EXCEPT ![c] = FALSE]
               /\ rpResult' = [rpResult EXCEPT ![c] = "none"]
               /\ currentMemMB' = currentMemMB + estimatedMemMB
          ELSE /\ AcquireReturns(c, ErrInsufficientMemory)
               /\ UNCHANGED currentMemMB
    /\ UNCHANGED semaphoreLen
    /\ UNCHANGED notPool

\* Caller c calls Acquire(ctx, estimatedMemMB) and the call makes its memory
\* check, the first thing it does; a failed check returns the
\* insufficient-memory error.
AcquireCheck(c, estimatedMemMB, usedSystemMB) ==
    /\ rpPc[c] = "idle"
    /\ IF checkMemoryLimit(estimatedMemMB, usedSystemMB)
          THEN /\ rpPc' = [rpPc EXCEPT ![c] = "select"]
               /\ rpCost' = [rpCost EXCEPT ![c] = estimatedMemMB]
               /\ rpCtxDone' = [rpCtxDone EXCEPT ![c] = FALSE]
               /\ rpResult' = [rpResult EXCEPT ![c] = "none"]
          ELSE AcquireReturns(c, ErrInsufficientMemory)
    /\ UNCHANGED <<currentMemMB, semaphoreLen>>
    /\ UNCHANGED notPool

\* An Acquire whose semaphore send never blocks, as on a channel without a
\* capacity limit.
AcquireSelectUnbounded(c) ==
    /\ rpPc[c] = "select"
    /\ semaphoreLen' = semaphoreLen + 1
    /\ rpPc' = [rpPc EXCEPT ![c] = "add"]
    /\ rpCtxDone' = [rpCtxDone EXCEPT ![c] = FALSE]
    /\ UNCHANGED <<rpResult, rpCost, currentMemMB>>
    /\ UNCHANGED notPool

\* Acquire: the select that takes a concurrency slot or sees ctx.Done(). Once
\* it has the slot the call no longer looks at its context.
AcquireSelect(c) ==
    /\ rpPc[c] = "select"
    /\ \/ /\ semaphoreLen < PoolConcurrency
          /\ semaphoreLen' = semaphoreLen + 1
          /\ rpPc' = [rpPc EXCEPT ![c] = "add"]
          /\ rpCtxDone' = [rpCtxDone EXCEPT ![c] = FALSE]
          /\ UNCHANGED <<rpResult, rpCost>>
       \/ /\ rpCtxDone[c]
          /\ AcquireReturns(c, ErrCanceled)
          /\ UNCHANGED semaphoreLen
    /\ UNCHANGED currentMemMB
    /\ UNCHANGED notPool

\* An addMemoryUsage that stores the cost instead of adding it.
addMemoryUsageOverwrite(memoryMB) == currentMemMB' = memoryMB

\* addMemoryUsage
addMemoryUsage(memoryMB) == currentMemMB' = currentMemMB + memoryMB

\* Acquire: addMemoryUsage, return nil.
AcquireAdd(c) ==
    /\ rpPc[c] = "add"
    /\ addMemoryUsage(rpCost[c])
    /\ AcquireReturns(c, NoErr)
    /\ UNCHANGED semaphoreLen
    /\ UNCHANGED notPool

\* A removeMemoryUsage without the clamp to zero.
removeMemoryUsageNoClamp(memoryMB) == currentMemMB' = currentMemMB - memoryMB

\* removeMemoryUsage
removeMemoryUsage(memoryMB) ==
    currentMemMB' = IF currentMemMB - memoryMB < 0 THEN 0 ELSE currentMemMB - memoryMB

\* Release(memoryMB) by the caller that holds the resources: removeMemoryUsage.
ReleaseRemove(c) ==
    /\ rpPc[c] = "held"
    /\ removeMemoryUsage(rpCost[c])
    /\ rpPc' = [rpPc EXCEPT ![c] = "drain"]
    /\ rpCost' = [rpCost EXCEPT ![c] = 0]
    /\ UNCHANGED <<semaphoreLen, rpCtxDone, rpResult>>
    /\ UNCHANGED notPool

\* Release: <-rp.semaphore.
ReleaseDrain(c) ==
    /\ rpPc[c] = "drain"
    /\ semaphoreLen > 0
    /\ semaphoreLen' = semaphoreLen - 1
    /\ rpPc' = [rpPc EXCEPT ![c] = "idle"]
    /\ UNCHANGED <<currentMemMB, rpCost, rpCtxDone, rpResult>>
    /\ UNCHANGED notPool

\* The context caller c passed to Acquire is cancelled before the call reaches
\* its select (checkMemoryLimit does not look at the context) or while the call
\* waits in it.
AcquireCancel(c) ==
    /\ rpPc[c] = "select"
    /\ ~rpCtxDone[c]
    /\ rpCtxDone' = [rpCtxDone EXCEPT ![c] = TRUE]
    /\ UNCHANGED <<currentMemMB, semaphoreLen, rpPc, rpCost, rpResult>>
    /\ UNCHANGED notPool

\* Release(memoryMB) that matches no Acquire: by a caller that holds nothing (an
\* unmatched or duplicate Release), or by a holder with another cost than it
\* acquired. removeMemoryUsage runs; <-rp.semaphore follows in ReleaseDrain.
ReleaseUnmatched(c, memoryMB) ==
    /\ \/ rpPc[c] = "idle"
       \/ rpPc[c] = "held" /\ memoryMB # rpCost[c]
    /\ removeMemoryUsage(memoryMB)
    /\ rpPc' = [rpPc EXCEPT ![c] = "drain"]
    /\ rpCost' = [rpCost EXCEPT ![c] = 0]
    /\ rpResult' = [rpResult EXCEPT ![c] = "none"]
    /\ UNCHANGED <<semaphoreLen, rpCtxDone>>
    /\ UNCHANGED notPool

NextPool ==
    \/ \E c \in PoolCallers, m \in 1..MaxCost, u \in UsedSystemMBs :
          AcquireCheck(c, m, u)
    \/ \E c \in PoolCallers : AcquireSelect(c)
    \/ \E c \in PoolCallers : AcquireAdd(c)
    \/ \E c \in PoolCallers : ReleaseRemove(c)
    \/ \E c \in PoolCallers : ReleaseDrain(c)
    \/ \E c \in PoolCallers : AcquireCancel(c)

\* The pool with Release calls that match no Acquire as well.
NextPoolAny ==
    \/ NextPool
    \/ \E c \in PoolCallers, m \in 1..MaxCost : ReleaseUnmatched(c, m)

----------------------------------------------------------------------------
\* resilience.ExecuteWithRetry.

\* Bounds of the ExecuteWithRetry model. Durations are whole units of time.
MaxAttemptsBound == 3   \* config.MaxAttempts is drawn from 0..MaxAttemptsBound
MaxInitialDelay == 2    \* config.InitialDelay is drawn from 1..MaxInitialDelay
MaxMaxDelay == 3        \* config.MaxDelay is drawn from 1..MaxMaxDelay
MaxBackoffFactor == 2   \* config.BackoffFactor is drawn from 1..MaxBackoffFactor

\* type RetryConfig struct
RetryConfig ==
    [MaxAttempts : 0..MaxAttemptsBound,
     InitialDelay : 1..MaxInitialDelay,
     MaxDelay : 1..MaxMaxDelay,
     BackoffFactor : 1..MaxBackoffFactor]

\* fmt.Errorf("failed after %d attempts: %w", config.MaxAttempts, lastErr)
ErrFailedAfter == "failed after %d attempts: %w"
FailedAfter(attempts, wrapped) ==
    [err |-> ErrFailedAfter, attempts |-> attempts, wraps |-> wrapped]

\* An error value, or nil, that wraps nothing.
Plain(e) == [err |-> e, attempts |-> 0, wraps |-> 0]

\* No call is in progress and none was made.
InitRetryIdle ==
    /\ config = [MaxAttempts |-> 0, InitialDelay |-> 1, MaxDelay |-> 1,
                 BackoffFactor |-> 1]
    /\ rtCtxDone = FALSE
    /\ rtPc = "done"
    /\ attempt = 0
    /\ delay = 0
    /\ lastErr = 0
    /\ rtResult = Plain("none")
    /\ invocations = 0
    /\ sleeps = <<>>

\* A caller is about to call ExecuteWithRetry(ctx, config, fn); its context
\* may be done already.
InitRetry ==
    /\ config \in RetryConfig
    /\ rtCtxDone \in BOOLEAN
    /\ rtPc = "start"
    /\ attempt = 0
    /\ delay = 0
    /\ lastErr = 0
    /\ rtResult = Plain("none")
    /\ invocations = 0
    /\ sleeps = <<>>

\* return from ExecuteWithRetry
RetryReturns(r) ==
    /\ rtPc' = "done"
    /\ rtResult' = r

\* After the loop: the for condition attempt <= config.MaxAttempts is false or
\* the loop was left by break.
RetryFailedAfter ==
    RetryReturns(FailedAfter(config.MaxAttempts, lastErr))

\* A variant that enters the loop by sleeping, as if the backoff preceded
\* every attempt.
RetryStartSleepFirst ==
    /\ rtPc = "start"
    /\ delay' = config.InitialDelay
    /\ attempt' = 1
    /\ rtPc' = IF 1 <= config.MaxAttempts THEN "sleep" ELSE "done"
    /\ rtResult' = IF 1 <= config.MaxAttempts THEN rtResult
                   ELSE FailedAfter(config.MaxAttempts, lastErr)
    /\ UNCHANGED <<config, rtCtxDone, lastErr, invocations, sleeps>>
    /\ UNCHANGED notRetry

\* A variant that returns lastErr itself, nil when the loop was never entered.
RetryStartReturningLastErr ==
    /\ rtPc = "start"
    /\ delay' = config.InitialDelay
    /\ attempt' = 1
    /\ IF 1 <= config.MaxAttempts
         THEN rtPc' = "attempt" /\ UNCHANGED rtResult
         ELSE RetryReturns(Plain(NoErr))
    /\ UNCHANGED <<config, rtCtxDone, lastErr, invocations, sleeps>>
    /\ UNCHANGED notRetry

\* var lastErr error; delay := config.InitialDelay; attempt := 1 and the first
\* test of the for condition.
RetryStart ==
    /\ rtPc = "start"
    /\ delay' = config.InitialDelay
    /\ attempt' = 1
    /\ IF 1 <= config.MaxAttempts
         THEN rtPc' = "attempt" /\ UNCHANGED rtResult
         ELSE RetryReturns(FailedAfter(config.MaxAttempts, lastErr))
    /\ UNCHANGED <<config, rtCtxDone, lastErr, invocations, sleeps>>
    /\ UNCHANGED notRetry

\* lastErr = fn(); if lastErr == nil { return nil }
RetryAttempt(ok) ==
    /\ rtPc = "attempt"
    /\ invocations' = invocations + 1
    /\ IF ok
         THEN lastErr' = 0 /\ RetryReturns(Plain(NoErr))
         ELSE lastErr' = invocations + 1 /\ rtPc' = "failed" /\ UNCHANGED rtResult
    /\ UNCHANGED <<config, rtCtxDone, attempt, delay, sleeps>>
    /\ UNCHANGED notRetry

\* A variant whose loop makes one attempt fewer.
RetryCheckOneFewer ==
    /\ rtPc = "failed"
    /\ IF rtCtxDone
         THEN RetryReturns(Plain(ErrCanceled))
         ELSE IF attempt >= config.MaxAttempts - 1
                THEN RetryFailedAfter
                ELSE rtPc' = "sleep" /\ UNCHANGED rtResult
    /\ UNCHANGED <<config, rtCtxDone, attempt, delay, lastErr, invocations, sleeps>>
    /\ UNCHANGED notRetry

\* if ctx.Err() != nil { return ctx.Err() }
\* if attempt == config.MaxAttempts { break }
RetryCheck ==
    /\ rtPc = "failed"
    /\ IF rtCtxDone
         THEN RetryReturns(Plain(ErrCanceled))
         ELSE IF attempt = config.MaxAttempts
                THEN RetryFailedAfter
                ELSE rtPc' = "sleep" /\ UNCHANGED rtResult
    /\ UNCHANGED <<config, rtCtxDone, attempt, delay, lastErr, invocations, sleeps>>
    /\ UNCHANGED notRetry

\* delay = time.Duration(float64(delay) * config.BackoffFactor)
\* if delay > config.MaxDelay { delay = config.MaxDelay }
\* The factors of the model are whole numbers, so the product is exact in
\* float64 and its conversion back truncates nothing.
NextDelay(d) ==
    LET scaled == d * config.BackoffFactor
    IN  IF scaled > config.MaxDelay THEN config.MaxDelay ELSE scaled

\* case <-time.After(delay): the timer fired and select chose it; then the
\* new delay, attempt++ and the for condition. The timer's case is ready once
\* the delay has passed, whether or not ctx is done by then.
RetrySleepTimer ==
    /\ rtPc = "sleep"
    /\ sleeps' = Append(sleeps, delay)
    /\ delay' = NextDelay(delay)
    /\ attempt' = attempt + 1
    /\ IF attempt + 1 <= config.MaxAttempts
         THEN rtPc' = "attempt" /\ UNCHANGED rtResult
         ELSE RetryFailedAfter
    /\ UNCHANGED <<config, rtCtxDone, lastErr, invocations>>
    /\ UNCHANGED notRetry

\* case <-ctx.Done(): return ctx.Err()
RetrySleepDone ==
    /\ rtPc = "sleep"
    /\ rtCtxDone
    /\ RetryReturns(Plain(ErrCanceled))
    /\ UNCHANGED <<config, rtCtxDone, attempt, delay, lastErr, invocations, sleeps>>
    /\ UNCHANGED notRetry

\* The caller cancels the context, or its deadline passes, while the call is
\* in progress.
RetryCancel ==
    /\ rtPc # "done"
    /\ ~rtCtxDone
    /\ rtCtxDone' = TRUE
    /\ UNCHANGED <<config, rtPc, attempt, delay, lastErr, rtResult, invocations, sleeps>>
    /\ UNCHANGED notRetry

NextRetry ==
    \/ RetryStart
    \/ \E ok \in BOOLEAN : RetryAttempt(ok)
    \/ RetryCheck
    \/ RetrySleepTimer
    \/ RetrySleepDone
    \/ RetryCancel

----------------------------------------------------------------------------
\* The row computer, applied by computeUsageRows and processMetricsPage to one
\* metric sample whose key is in the index.

\* Bound of the row computer model.
MaxContainers == 2      \* containers of a pod, and usage records of a sample

ContainerNames == {"c1", "c2"}

\* container.Resources.Limits in Mi and millicores: absent, zero or positive.
LimitMaps ==
    {[r \in {} |-> 0], [memory |-> 0], [memory |-> 1], [memory |-> 2], [cpu |-> 1],
     [memory |-> 1, cpu |-> 2]}

\* container.Usage in Mi and millicores.
UsageMaps == {[r \in {} |-> 0], [memory |-> 1], [cpu |-> 1], [memory |-> 2, cpu |-> 3]}

\* The pods: their containers have different names.
RowPods ==
    {[ns |-> "default", name |-> "p1", labels |-> {}, containers |-> cs] :
        cs \in {c \in SeqsUpTo([name : ContainerNames, limits : LimitMaps], MaxContainers) :
                   \A i, j \in 1..Len(c) : c[i].name = c[j].name => i = j}}

\* The metric samples of the pod default/p1.
RowMetrics ==
    {[ns |-> "default", name |-> "p1", containers |-> cs] :
        cs \in SeqsUpTo([name : ContainerNames, usage : UsageMaps], MaxContainers)}

InitRowsIdle ==
    /\ rwPm = [ns |-> "default", name |-> "p1", containers |-> <<>>]
    /\ rwPod = [ns |-> "default", name |-> "p1", labels |-> {}, containers |-> <<>>]
    /\ rwOpts = [Mode |-> "pods", Resource |-> "memory"]
    /\ rwPc = "done"
    /\ rwRows = <<>>

\* podIndex holds NewPodSpecInfo(rwPod) under the key of the sample rwPm.
InitRows ==
    /\ rwPm \in RowMetrics
    /\ rwPod \in RowPods
    /\ rwOpts \in [Mode : {"pods", "containers"}, Resource : {"memory", "cpu"}]
    /\ rwPc = "start"
    /\ rwRows = <<>>

\* case config.ModePods: the row of computePodRow, if any.
RowsModePods ==
    /\ rwPc = "start"
    /\ rwOpts.Mode = "pods"
    /\ rwRows' = computePodRow(rwPm, NewPodSpecInfo(rwPod), rwOpts.Resource)
    /\ rwPc' = "done"
    /\ UNCHANGED <<rwPm, rwPod, rwOpts>>
    /\ UNCHANGED notRows

\* case config.ModeContainers: the rows of computeContainerRows.
RowsModeContainers ==
    /\ rwPc = "start"
    /\ rwOpts.Mode = "containers"
    /\ rwRows' = computeContainerRows(rwPm, NewPodSpecInfo(rwPod), rwOpts.Resource)
    /\ rwPc' = "done"
    /\ UNCHANGED <<rwPm, rwPod, rwOpts>>
    /\ UNCHANGED notRows

NextRows ==
    \/ RowsModePods
    \/ RowsModeContainers

----------------------------------------------------------------------------
\* The correlation index: StreamingCollector.indexPodPage and the first loop of
\* Collector.correlateData.

\* Bounds of the index model.
MaxIndexPods == 3       \* pods the server serves at most
IndexPageSize == 1      \* c.pageSize: pods per page of the streaming collector

\* A label-exclusion regular expression is a sequence of key=value labels that
\* matches a label string holding them next to each other in that order; the
\* empty sequence stands for a nil ExcludeLabels.
LabelPatterns == {<<>>, <<"app=web">>, <<"app=web", "tier=db">>, <<"tier=db", "app=web">>}

IndexOptionsSet ==
    [ExcludeNamespaces : {{}, {"kube-system"}},
     ExcludeLabels : LabelPatterns,
     LabelSelector : {"", "app=web"}]

\* regexp.MatchString(labelString) for the patterns above.
MatchString(pattern, labelString) ==
    \E i \in 0..(Len(labelString) - Len(pattern)) :
        SubSeq(labelString, i + 1, i + Len(pattern)) = pattern

\* formatLabels: the labels joined in the order `range labels` yields them. Go
\* leaves the iteration order of a map unspecified, so every order is a
\* possible result.
formatLabels(podLabels) ==
    {ls \in [1..Cardinality(podLabels) -> podLabels] :
        \A i, j \in 1..Cardinality(podLabels) : ls[i] = ls[j] => i = j}

\* sync.Map.Store, and the assignment podIndex[key] = ...: the entry replaces
\* the one the key had.
StoreKeepingOld(index, entry) == index \cup {entry}

Store(index, entry) == {e \in index : e.key # entry.key} \cup {entry}

\* The pages the server cuts the pod list into for the streaming collector;
\* correlateData gets the whole list as one.
PagesOf(pods, via) ==
    IF via = "correlateData" THEN <<pods>>
    ELSE [t \in 1..((Len(pods) + IndexPageSize - 1) \div IndexPageSize) |->
             SubSeq(pods, (t - 1) * IndexPageSize + 1,
                    IF t * IndexPageSize < Len(pods) THEN t * IndexPageSize
                    ELSE Len(pods))]

\* No index is being built.
InitIndexIdle ==
    /\ ixVia = "none"
    /\ ixOpts = [ExcludeNamespaces |-> {}, ExcludeLabels |-> <<>>, LabelSelector |-> ""]
    /\ ixPages = <<>>
    /\ ixPos = <<>>
    /\ ixIndex = {}
    /\ ixStored = {}

\* The pod pages have been fetched and an empty index created: by
\* correlateStreamingData (podIndex := sync.Map{}) with one index task per
\* page, or by correlateData (podIndex := make(map...)).
InitIndex ==
    /\ ixVia \in {"indexPodPage", "correlateData"}
    /\ ixOpts \in IndexOptionsSet
    /\ \E pods \in SeqsUpTo(PodSamples, MaxIndexPods) :
          /\ ixPages = PagesOf(pods, ixVia)
          /\ ixPos = [t \in DOMAIN PagesOf(pods, ixVia) |-> 1]
    /\ ixIndex = {}
    /\ ixStored = {}

\* The end of one round of either loop: the pod was skipped (continue) or
\* stored under namespace/name.
IndexLoopRound(t, keep) ==
    LET pod == ixPages[t][ixPos[t]]
        entry == [key |-> pod.ns \o "/" \o pod.name,
                  info |-> NewPodSpecInfo(pod),
                  from |-> <<t, ixPos[t]>>]
    IN  /\ ixPos' = [ixPos EXCEPT ![t] = ixPos[t] + 1]
        /\ IF keep
             THEN /\ ixIndex' = Store(ixIndex, entry)
                  /\ ixStored' = ixStored \cup {<<t, ixPos[t]>>}
             ELSE UNCHANGED <<ixIndex, ixStored>>
        /\ UNCHANGED <<ixVia, ixOpts, ixPages>>

\* indexPodPage: one round of the loop of the index task of page t, with
\* labelString what formatLabels returned.
indexPodPageRound(t, labelString) ==
    /\ ixVia = "indexPodPage"
    /\ ixPos[t] <= Len(ixPages[t])
    /\ labelString \in formatLabels(ixPages[t][ixPos[t]].labels)
    /\ IndexLoopRound(t,
          /\ ixPages[t][ixPos[t]].ns \notin ixOpts.ExcludeNamespaces
          /\ ~(ixOpts.ExcludeLabels # <<>>
                 /\ MatchString(ixOpts.ExcludeLabels, labelString)))
    /\ UNCHANGED notIndex

\* correlateData: one round of the loop that builds podIndex.
correlateDataRound ==
    /\ ixVia = "correlateData"
    /\ ixPos[1] <= Len(ixPages[1])
    /\ IndexLoopRound(1,
          /\ ixPages[1][ixPos[1]].ns \notin ixOpts.ExcludeNamespaces
          /\ SelectorMatches(ixOpts.LabelSelector, ixPages[1][ixPos[1]].labels))
    /\ UNCHANGED notIndex

\* The tasks whose loop has a pod left.
IndexTasksRunning == {t \in DOMAIN ixPages : ixPos[t] <= Len(ixPages[t])}

NextIndex ==
    \/ \E t \in IndexTasksRunning :
          \E labelString \in formatLabels(ixPages[t][ixPos[t]].labels) :
             indexPodPageRound(t, labelString)
    \/ correlateDataRound

----------------------------------------------------------------------------
\* Analyzer.Sort and Analyzer.Filter (package analyzer), applied by run() to
\* the rows Collect returned.

\* Bounds of the Analyzer model.
MaxRows == 3

\* The strings of the model in the order of Go's string comparison.
StringsAscending == <<"api", "db", "default", "kube-system", "web">>

\* left < right on Go strings.
StringLess(left, right) ==
    (CHOOSE i \in DOMAIN StringsAscending : StringsAscending[i] = left)
        < (CHOOSE i \in DOMAIN StringsAscending : StringsAscending[i] = right)

\* A metrics.Row of the selected resource; the fields of the other resource
\* are left at zero by the row computer.
MemoryRow(ns, name, usage, limit, pct) ==
    [Namespace |-> ns, Name |-> name, UsageMi |-> usage, LimitMi |-> limit,
     UsageMc |-> 0, LimitMc |-> 0, Percentage |-> pct]

CPURow(ns, name, usage, limit, pct) ==
    [Namespace |-> ns, Name |-> name, UsageMi |-> 0, LimitMi |-> 0,
     UsageMc |-> usage, LimitMc |-> limit, Percentage |-> pct]

\* Namespace, name, usage, limit and percentage of the rows of a run: several
\* share a percentage, a usage, a limit or a namespace. A run has one row for
\* a namespace and name.
RowSamples ==
    { <<"default", "api", 1, 2, 50>>,
      <<"default", "db", 2, 4, 50>>,
      <<"kube-system", "api", 1, 2, 50>>,
      <<"default", "web", 9, 10, 90>>,
      <<"kube-system", "db", 3, 10, 30>> }

RowsOfResource(resource) ==
    { IF resource = "memory"
        THEN MemoryRow(r[1], r[2], r[3], r[4], r[5])
        ELSE CPURow(r[1], r[2], r[3], r[4], r[5]) : r \in RowSamples }

\* The slices of at most MaxRows rows, one row for a namespace and name.
RowSlices(resource) ==
    UNION { { rows \in [1..n -> RowsOfResource(resource)] :
                \A i, j \in 1..n : rows[i] = rows[j] => i = j } : n \in 0..MaxRows }

AnalyzerOptions ==
    [Sort : {"pct", "usage", "limit"}, Resource : {"memory", "cpu"},
     TopN : 0..(MaxRows + 1)]

InitAnalyzerIdle ==
    /\ anRows = <<>>
    /\ anOpts = [Sort |-> "pct", Resource |-> "memory", TopN |-> 0]
    /\ anPc = "done"
    /\ anSorted = <<>>
    /\ anOut = <<>>

InitAnalyzer ==
    /\ anOpts \in AnalyzerOptions
    /\ anRows \in RowSlices(anOpts.Resource)
    /\ anPc = "sort"
    /\ anSorted = <<>>
    /\ anOut = <<>>

compareByIdentity(left, right) ==
    IF left.Namespace = right.Namespace
      THEN StringLess(left.Name, right.Name)
      ELSE StringLess(left.Namespace, right.Namespace)

compareByUsage(left, right, resource) ==
    CASE resource = "memory" ->
            IF left.UsageMi = right.UsageMi
              THEN compareByIdentity(left, right)
              ELSE left.UsageMi > right.UsageMi
      [] resource = "cpu" ->
            IF left.UsageMc = right.UsageMc
              THEN compareByIdentity(left, right)
              ELSE left.UsageMc > right.UsageMc
      [] OTHER -> compareByIdentity(left, right)

compareByLimit(left, right, resource) ==
    CASE resource = "memory" ->
            IF left.LimitMi = right.LimitMi
              THEN compareByIdentity(left, right)
              ELSE left.LimitMi > right.LimitMi
      [] resource = "cpu" ->
            IF left.LimitMc = right.LimitMc
              THEN compareByIdentity(left, right)
              ELSE left.LimitMc > right.LimitMc
      [] OTHER -> compareByIdentity(left, right)

\* The comparison with the percentages in ascending order.
compareByPercentageAscending(left, right) ==
    IF left.Percentage = right.Percentage
      THEN compareByIdentity(left, right)
      ELSE left.Percentage < right.Percentage

compareByPercentage(left, right) ==
    IF left.Percentage = right.Percentage
      THEN compareByIdentity(left, right)
      ELSE left.Percentage > right.Percentage

compareRows(left, right, o) ==
    CASE o.Sort = "usage" -> compareByUsage(left, right, o.Resource)
      [] o.Sort = "limit" -> compareByLimit(left, right, o.Resource)
      [] OTHER -> compareByPercentage(left, right)

\* sort.Slice is not stable: it leaves the slice in some order of its elements
\* in which no element is less than an earlier one.
SliceSorted(rows, o) ==
    { sorted \in { [i \in DOMAIN rows |-> rows[perm[i]]] :
                     perm \in { f \in [DOMAIN rows -> DOMAIN rows] :
                                  \A i, j \in DOMAIN rows : f[i] = f[j] => i = j } } :
        \A i, j \in DOMAIN rows : i < j => ~compareRows(sorted[j], sorted[i], o) }

\* Filter that keeps one row fewer than opts.TopN.
FilterOneFewer(rows, o) ==
    IF o.TopN <= 0 \/ o.TopN >= Len(rows)
      THEN rows
      ELSE SubSeq(rows, 1, o.TopN - 1)

Filter(rows, o) ==
    IF o.TopN <= 0 \/ o.TopN >= Len(rows)
      THEN rows
      ELSE SubSeq(rows, 1, o.TopN)

\* dataAnalyzer.Sort(rows, *opts): the slice is sorted in place.
AnalyzerSort ==
    /\ anPc = "sort"
    /\ anSorted' \in SliceSorted(anRows, anOpts)
    /\ anPc' = "filter"
    /\ UNCHANGED <<anRows, anOpts, anOut>>
    /\ UNCHANGED notAnalyzer

\* rows = dataAnalyzer.Filter(rows, *opts)
AnalyzerFilter ==
    /\ anPc = "filter"
    /\ anOut' = Filter(anSorted, anOpts)
    /\ anPc' = "done"
    /\ UNCHANGED <<anRows, anOpts, anSorted>>
    /\ UNCHANGED notAnalyzer

NextAnalyzer ==
    \/ AnalyzerSort
    \/ AnalyzerFilter

----------------------------------------------------------------------------
\* observability.PerformanceMonitor: the goroutine Start launches, the ticker
\* and Stop calls.

\* Bounds of the PerformanceMonitor model.
MaxStops == 2           \* Stop calls made
MaxMonitorUpdates == 2  \* ticks the ticker delivers at most

\* No monitor runs.
InitMonitorIdle ==
    /\ pmPc = "returned"
    /\ pmTick = 0
    /\ pmTickerStopped = TRUE
    /\ pmStopPc = "idle"
    /\ pmStops = MaxStops
    /\ pmCtxDone = FALSE
    /\ pmUpdates = 0

\* NewPerformanceMonitor, then Start(ctx): the goroutine is at the top of its
\* loop, the ticker runs, stopChan has no buffer.
InitMonitor ==
    /\ pmPc = "select"
    /\ pmTick = 0
    /\ pmTickerStopped = FALSE
    /\ pmStopPc = "idle"
    /\ pmStops = 0
    /\ pmCtxDone = FALSE
    /\ pmUpdates = 0

\* The runtime delivers a tick on pm.ticker.C, a channel that holds one tick
\* and drops the next while it is full; a stopped ticker delivers none.
TickerFires ==
    /\ ~pmTickerStopped
    /\ pmTick = 0
    /\ pmUpdates < MaxMonitorUpdates
    /\ pmTick' = 1
    /\ UNCHANGED <<pmPc, pmTickerStopped, pmStopPc, pmStops, pmCtxDone, pmUpdates>>
    /\ UNCHANGED notMonitor

\* The goroutine's select with a case ready: a tick or ctx.Done(), chosen at
\* random when both are. stopChan is ready only while a sender waits, and
\* Stop's send never waits.
MonitorSelectReady ==
    /\ pmPc = "select"
    /\ \/ /\ pmTick = 1
          /\ pmTick' = 0
          /\ pmPc' = "update"
       \/ /\ pmCtxDone
          /\ pmPc' = "returned"
          /\ UNCHANGED pmTick
    /\ UNCHANGED <<pmTickerStopped, pmStopPc, pmStops, pmCtxDone, pmUpdates>>
    /\ UNCHANGED notMonitor

\* The goroutine's select with no case ready: the goroutine waits on the
\* three channels.
MonitorSelectWait ==
    /\ pmPc = "select"
    /\ pmTick = 0
    /\ ~pmCtxDone
    /\ pmPc' = "waiting"
    /\ UNCHANGED <<pmTick, pmTickerStopped, pmStopPc, pmStops, pmCtxDone, pmUpdates>>
    /\ UNCHANGED notMonitor

\* The waiting goroutine is woken by a tick or by ctx.Done().
MonitorWake ==
    /\ pmPc = "waiting"
    /\ \/ /\ pmTick = 1
          /\ pmTick' = 0
          /\ pmPc' = "update"
       \/ /\ pmCtxDone
          /\ pmPc' = "returned"
          /\ UNCHANGED pmTick
    /\ UNCHANGED <<pmTickerStopped, pmStopPc, pmStops, pmCtxDone, pmUpdates>>
    /\ UNCHANGED notMonitor

\* if pm.updateMemory { pm.metrics.UpdateMemoryUsage() }, then the loop again.
MonitorUpdate ==
    /\ pmPc = "update"
    /\ pmUpdates' = pmUpdates + 1
    /\ pmPc' = "select"
    /\ UNCHANGED <<pmTick, pmTickerStopped, pmStopPc, pmStops, pmCtxDone>>
    /\ UNCHANGED notMonitor

\* Stop: the lock and pm.ticker.Stop(). Whether a tick already delivered
\* stays in ticker.C depends on the Go release the program is built with.
StopTicker ==
    /\ pmStopPc = "idle"
    /\ pmStops < MaxStops
    /\ pmTickerStopped' = TRUE
    /\ pmTick' \in {pmTick, 0}
    /\ pmStopPc' = "send"
    /\ UNCHANGED <<pmPc, pmStops, pmCtxDone, pmUpdates>>
    /\ UNCHANGED notMonitor

\* Stop: select { case pm.stopChan <- struct{}{}: default: }, the unlock and
\* the return. The send goes through when the goroutine waits in its select
\* and hands it the value; otherwise the default case runs.
StopSend ==
    /\ pmStopPc = "send"
    /\ pmPc' = IF pmPc = "waiting" THEN "returned" ELSE pmPc
    /\ pmStopPc' = "idle"
    /\ pmStops' = pmStops + 1
    /\ UNCHANGED <<pmTick, pmTickerStopped, pmCtxDone, pmUpdates>>
    /\ UNCHANGED notMonitor

\* The context passed to Start is cancelled.
MonitorCancel ==
    /\ ~pmCtxDone
    /\ pmPc # "returned"
    /\ pmCtxDone' = TRUE
    /\ UNCHANGED <<pmPc, pmTick, pmTickerStopped, pmStopPc, pmStops, pmUpdates>>
    /\ UNCHANGED notMonitor

NextMonitor ==
    \/ TickerFires
    \/ MonitorSelectReady
    \/ MonitorSelectWait
    \/ MonitorWake
    \/ MonitorUpdate
    \/ StopTicker
    \/ StopSend
    \/ MonitorCancel

----------------------------------------------------------------------------
\* The specifications.

Init == InitStreaming /\ InitCollectIdle /\ InitBreakerIdle /\ InitPoolIdle /\ InitRetryIdle /\ InitIndexIdle /\ InitRowsIdle /\ InitAnalyzerIdle /\ InitMonitorIdle

Next == NextStreaming

Spec == Init /\ [][Next]_vars

InitC == InitCollect /\ InitStreaming /\ InitBreakerIdle /\ InitPoolIdle /\ InitRetryIdle /\ InitIndexIdle /\ InitRowsIdle /\ InitAnalyzerIdle /\ InitMonitorIdle

NextC == NextCollect

SpecCollect == InitC /\ [][NextC]_vars

InitB == InitBreaker /\ InitStreaming /\ InitCollectIdle /\ InitPoolIdle /\ InitRetryIdle /\ InitIndexIdle /\ InitRowsIdle /\ InitAnalyzerIdle /\ InitMonitorIdle

SpecBreaker == InitB /\ [][NextBreaker]_vars

SpecBreakerSeq == InitB /\ [][NextBreakerSeq]_vars

InitP == InitPool /\ InitStreaming /\ InitCollectIdle /\ InitBreakerIdle /\ InitRetryIdle /\ InitIndexIdle /\ InitRowsIdle /\ InitAnalyzerIdle /\ InitMonitorIdle

SpecPool == InitP /\ [][NextPool]_vars

SpecPoolAny == InitP /\ [][NextPoolAny]_vars

InitR == InitRetry /\ InitStreaming /\ InitCollectIdle /\ InitBreakerIdle /\ InitPoolIdle /\ InitIndexIdle /\ InitRowsIdle /\ InitAnalyzerIdle /\ InitMonitorIdle

SpecRetry == InitR /\ [][NextRetry]_vars

InitI ==
    /\ InitIndex
    /\ InitStreaming /\ InitCollectIdle /\ InitBreakerIdle /\ InitPoolIdle
    /\ InitRetryIdle /\ InitRowsIdle /\ InitAnalyzerIdle /\ InitMonitorIdle

SpecIndex == InitI /\ [][NextIndex]_vars

InitW ==
    /\ InitRows
    /\ InitStreaming /\ InitCollectIdle /\ InitBreakerIdle /\ InitPoolIdle
    /\ InitRetryIdle /\ InitIndexIdle /\ InitAnalyzerIdle /\ InitMonitorIdle

SpecRows == InitW /\ [][NextRows]_vars

InitA ==
    /\ InitAnalyzer
    /\ InitStreaming /\ InitCollectIdle /\ InitBreakerIdle /\ InitPoolIdle
    /\ InitRetryIdle /\ InitIndexIdle /\ InitRowsIdle /\ InitMonitorIdle

SpecAnalyzer == InitA /\ [][NextAnalyzer]_vars

InitM ==
    /\ InitMonitor
    /\ InitStreaming /\ InitCollectIdle /\ InitBreakerIdle /\ InitPoolIdle
    /\ InitRetryIdle /\ InitIndexIdle /\ InitRowsIdle /\ InitAnalyzerIdle

SpecMonitor == InitM /\ [][NextMonitor]_vars

\* The Go scheduler runs the goroutine when it can take a step, the runtime
\* delivers the ticks of a running ticker, and a Stop call that was made runs
\* to its end. Neither a Stop call nor the cancellation of the context is
\* forced.
FairMonitor ==
    /\ WF_vars(MonitorSelectReady \/ MonitorSelectWait \/ MonitorWake \/ MonitorUpdate)
    /\ WF_vars(TickerFires)
    /\ WF_vars(StopSend)

SpecMonitorLive == InitM /\ [][NextMonitor]_vars /\ FairMonitor

\* The Go scheduler runs some goroutine that can take a step, each remote list
\* call returns, and the consumer keeps receiving. Every goroutine of a run
\* takes finitely many steps, so this is as strong as fairness to each of them.
\* The caller's cancellation is not forced.
FairStreaming ==
    WF_vars(processStreamingData \/ NextFetchers \/ NextCorrelate
              \/ CollectStreamingWait \/ ConsumerReceive)

SpecLive == Init /\ [][Next]_vars /\ FairStreaming

----------------------------------------------------------------------------
\* Claims about ExecuteWithRetry.

\* The call returned after an invocation of fn that succeeded.
ReturnedAfterSuccess == rtPc = "done" /\ invocations >= 1 /\ lastErr = 0

\* C15: when the operation first succeeds on its k-th invocation, with
\* k <= maxAttempts, the call has invoked it exactly k times, has slept exactly
\* k-1 times (so not after the invocation that succeeded) and returns nil.
C15_SuccessOnAttemptK ==
    ReturnedAfterSuccess =>
        /\ rtResult = Plain(NoErr)
        /\ invocations = attempt
        /\ invocations <= config.MaxAttempts
        /\ Len(sleeps) = invocations - 1

\* The third invocation succeeded, with the context never cancelled.
C15_Witness ==
    /\ ReturnedAfterSuccess
    /\ ~rtCtxDone
    /\ invocations = 3
    /\ Len(sleeps) = 2
    /\ rtResult = Plain(NoErr)

\* b to the power e, for whole numbers.
RECURSIVE Pow(_, _)
Pow(b, e) == IF e = 0 THEN 1 ELSE b * Pow(b, e - 1)

\* initialDelay x backoffFactor^k capped at maxDelay
CappedBackoff(k) ==
    LET d == config.InitialDelay * Pow(config.BackoffFactor, k)
    IN  IF d > config.MaxDelay THEN config.MaxDelay ELSE d

\* C16: the delay slept before attempt k+1 is initialDelay x backoffFactor^k
\* capped at maxDelay, for every k >= 1, so that no sleep is longer than
\* maxDelay.
C16_DelayBeforeNextAttempt ==
    \A k \in 1..Len(sleeps) :
        /\ sleeps[k] = CappedBackoff(k)
        /\ sleeps[k] <= config.MaxDelay

\* C17: once the context of the call is done the operation is not invoked
\* any more, and an error returned with the context done is the context's
\* error, never the operation's or the composite one.
C17_CancelAbortsImmediately ==
    [][/\ rtCtxDone => invocations' = invocations
       /\ (rtCtxDone /\ rtPc # "done" /\ rtPc' = "done" /\ rtResult' # Plain(NoErr))
             => rtResult' = Plain(ErrCanceled)]_vars

\* C18: with maxAttempts >= 1 and the context never done, a call whose every
\* attempt failed has invoked the operation exactly maxAttempts times and
\* returns the composite error that names maxAttempts and wraps the error of
\* the last invocation.
C18_ExhaustedAttempts ==
    (rtPc = "done" /\ config.MaxAttempts >= 1 /\ ~rtCtxDone /\ lastErr # 0) =>
        /\ invocations = config.MaxAttempts
        /\ rtResult = FailedAfter(config.MaxAttempts, invocations)
        /\ lastErr = invocations

\* Three attempts failed, with two sleeps between them.
C18_Witness ==
    /\ rtPc = "done"
    /\ ~rtCtxDone
    /\ config.MaxAttempts = 3
    /\ invocations = 3
    /\ Len(sleeps) = 2
    /\ rtResult = FailedAfter(3, 3)

----------------------------------------------------------------------------
\* Claims about the circuit breaker.

\* C5: an Execute call that found the breaker Closed leaves it Closed while
\* fewer than maxFailures operations have failed since the last success, and
\* leaves it Open when the failure it recorded is the maxFailures-th in a row.
C5_ClosedUntilMaxFailures ==
    (exPc[SeqCaller] = "idle" /\ exState[SeqCaller] = "Closed") =>
        currentState = IF failuresInRow >= MaxFailures THEN "Open" ELSE "Closed"

\* The maxFailures-th failure in a row has just opened a Closed breaker.
C5_Witness ==
    /\ exPc[SeqCaller] = "idle"
    /\ exState[SeqCaller] = "Closed"
    /\ exResult[SeqCaller] = ErrOperation
    /\ failuresInRow = MaxFailures
    /\ currentState = "Open"

\* C6: while the breaker is Open and timeout has not elapsed since the last
\* failure, Execute returns the breaker-open error without invoking the
\* operation and leaves the state and the counters unchanged.
C6_OpenRejectsUntilTimeout ==
    [][\A c \in Callers :
          (/\ exPc[c] = "timeout"
           /\ exPc'[c] # "timeout"
           /\ currentState = "Open"
           /\ now - lastFailureAt < TimeoutTicks)
          => /\ exPc'[c] = "idle"
             /\ exResult'[c] = ErrOpen
             /\ UNCHANGED <<currentState, failureCount, successCount, lastFailure>>]_vars

\* Callers whose operation is running after canExecute let them through a
\* breaker that was not Closed.
LetThrough == {c \in Callers : exPc[c] = "fn" /\ exState[c] # "Closed"}

\* C7 as stated: after the timeout on an Open breaker exactly one call is let
\* through, however many callers call Execute concurrently.
C7_ExactlyOneThrough == Cardinality(LetThrough) <= 1

\* C7 as amended: exactly one caller wins each Open -> HalfOpen transition: a
\* caller that observed Open is let through only by making the transition
\* itself, and one that finds the state already changed is rejected with the
\* breaker-open error; callers that observe HalfOpen are let through as well.
C7_OneProbePerTransition ==
    [][\A c \in Callers :
          /\ (exPc[c] = "cas" /\ exPc'[c] # "cas") =>
                 IF currentState = "Open"
                    THEN currentState' = "HalfOpen" /\ exPc'[c] = "fn"
                    ELSE /\ exPc'[c] = "idle"
                         /\ exResult'[c] = ErrOpen
                         /\ currentState' = currentState
          /\ (exState'[c] = "Open" /\ exPc[c] # "fn" /\ exPc'[c] = "fn") =>
                 (currentState = "Open" /\ currentState' = "HalfOpen")]_vars

\* Two callers observed Open after the timeout; one made the transition and
\* runs its operation, the other is about to lose the compare-and-swap.
C7_Witness ==
    \E a, b \in Callers :
        /\ a # b
        /\ exPc[a] = "fn" /\ exState[a] = "Open"
        /\ exPc[b] = "cas" /\ exState[b] = "Open"
        /\ currentState = "HalfOpen"

\* C8: an Execute call whose operation ran while the breaker was HalfOpen and
\* failed leaves the breaker Open.
C8_HalfOpenFailureReopens ==
    (/\ exPc[SeqCaller] = "idle"
     /\ exResult[SeqCaller] = ErrOperation
     /\ exState[SeqCaller] \in {"HalfOpen", "Open"})
    => currentState = "Open"

\* C9: an Execute call whose operation ran while the breaker was HalfOpen and
\* succeeded leaves the breaker Closed exactly when it recorded the third
\* success in a row of this HalfOpen period, and then both counters are 0.
C9_ClosesAfterThreeInRow ==
    (/\ exPc[SeqCaller] = "idle"
     /\ exResult[SeqCaller] = NoErr
     /\ exState[SeqCaller] \in {"HalfOpen", "Open"})
    => /\ (currentState = "Closed") <=> (halfOpenStreak >= SuccessThreshold)
       /\ currentState = "Closed" => (failureCount = 0 /\ successCount = 0)

----------------------------------------------------------------------------
\* Claims about the resource pool.

\* C10: Acquire waits for a concurrency slot and for memory headroom, and
\* returns an error only when the caller's context is done.
C10_AcquireFailsOnlyOnCancel ==
    [][\A c \in PoolCallers :
          (rpPc[c] \in {"idle", "select"} /\ rpResult'[c] \notin {"none", NoErr}
             /\ rpResult'[c] # rpResult[c])
              => rpCtxDone[c]]_vars

\* C11: in every interleaving of concurrent Acquire calls and matched Release
\* calls the accounted memory stays within the ceiling: currentMemMB <=
\* maxMemoryMB.
C11_MemoryWithinCeiling == currentMemMB <= MaxMemoryMB

\* The callers that hold a concurrency slot: Acquire took it and their Release
\* has not given it back.
SlotHolders == {c \in PoolCallers : rpPc[c] \in {"add", "held", "drain"}}

\* C12: with every Release matching an Acquire, the operations that acquired
\* and have not released never number more than maxConcurrency.
C12_HoldersWithinConcurrency == Cardinality(SlotHolders) <= PoolConcurrency

\* maxConcurrency callers hold the pool and one more waits in Acquire's select.
C12_Witness ==
    /\ Cardinality({c \in PoolCallers : rpPc[c] = "held"}) = PoolConcurrency
    /\ \E c \in PoolCallers : rpPc[c] = "select"

\* The sum of the costs of the callers in S.
RECURSIVE HeldCost(_)
HeldCost(S) ==
    IF S = {} THEN 0
    ELSE LET c == CHOOSE x \in S : TRUE IN rpCost[c] + HeldCost(S \ {c})

\* C13: with every Release matching its Acquire in cost, currentMemMB is the
\* sum of the costs acquired and not yet released, so once a set of
\* Acquire/Release pairs has completed it is back at the value it had before
\* them (0 when nothing is held).
C13_MatchedPairsRestoreMemory ==
    currentMemMB = HeldCost({c \in PoolCallers : rpPc[c] = "held"})

\* One caller has completed an Acquire/Release pair while another still holds
\* what it acquired.
C13_Witness ==
    \E a, b \in PoolCallers :
        /\ rpPc[a] = "held" /\ rpCost[a] > 0
        /\ rpPc[b] = "idle" /\ rpResult[b] = NoErr
        /\ currentMemMB = rpCost[a]

\* C14: currentMemMB is never negative, also after Release calls that match no
\* Acquire or name a larger cost than was acquired.
C14_MemoryNeverNegative == currentMemMB >= 0

\* A Release that matches no Acquire ran on a pool that accounts no memory and
\* holds no slot: the subtraction was clamped, and the call waits on the
\* empty semaphore.
C14_Witness ==
    /\ currentMemMB = 0
    /\ semaphoreLen = 0
    /\ \E c \in PoolCallers : rpPc[c] = "drain"

----------------------------------------------------------------------------
\* Claims about Collect.

\* C4: when the pod fetch or the metric fetch failed, Collect returns no rows
\* and returns the error of the fetch that failed first, which names its phase.
C4_FetchFailureNoRows ==
    (cPc = "done" /\ (fpErr # NoErr \/ fmErr # NoErr)) =>
        /\ collectRows = <<>>
        /\ collectErr \in {fpErr, fmErr} \ {NoErr}
        /\ collectErr = cgErr

\* Collect returned after a fetch failed although the other fetch had returned
\* pods and metrics that correlate to rows.
C4_Witness ==
    /\ cPc = "done"
    /\ fmErr # NoErr
    /\ fpErr = NoErr
    /\ Len(podsList) > 0
    /\ correlateData(podsList, serverMetrics, opts)[1] # <<>>

----------------------------------------------------------------------------
\* Claims about CollectStreaming.

\* The error the run ended with reached the consumer or is still in the channel.
ErrorDelivered ==
    \/ recvErr
    \/ \E i \in 1..Len(resultChan) : resultChan[i].kind = "error"

\* C1: when a task of the run failed or the caller cancelled the context before
\* the run completed, the first error is delivered on the outbound channel
\* before the channel is closed: a closed channel of a failed or cancelled run
\* has carried an error value.
C1_FirstErrorDelivered ==
    (resultChanClosed /\ (gErr # NoErr \/ parentCancelled)) => ErrorDelivered

\* A step that pushes a ResultRow onto the outbound channel.
RowPushed ==
    /\ Len(resultChan') = Len(resultChan) + 1
    /\ resultChan'[Len(resultChan')].kind = "row"

\* C2: once a task failure has cancelled the shared context, no ResultRow is
\* pushed onto the outbound channel.
C2_NoRowAfterCancel ==
    [][(ctxDone /\ gErr # NoErr) => ~RowPushed]_vars

\* C3: every run whose goroutines keep being scheduled and whose consumer keeps
\* receiving eventually closes the outbound channel, and a run that closes it
\* without an error has closed both page queues, drained them and finished the
\* task of every page.
C3_EventuallyClosed ==
    /\ <>resultChanClosed
    /\ [](resultChanClosed /\ gErr = NoErr =>
             /\ podChanClosed /\ podChan = <<>>
             /\ metricsChanClosed /\ metricsChan = <<>>
             /\ \A p \in PodPageNos : idxPc[p] = "done"
             /\ \A m \in MetPageNos : metPc[m] = "done")

\* A run closed the channel after every page was fetched and processed without
\* an error.
C3_Witness ==
    /\ resultChanClosed
    /\ gErr = NoErr
    /\ ~parentCancelled
    /\ \A m \in MetPageNos : metPc[m] = "done"

----------------------------------------------------------------------------
\* Claims about the page fetchers.

\* A step of streamPods that pushes a page onto podChan.
PodPagePushed == Len(podChan') > Len(podChan)

\* A step of streamMetrics that pushes a page onto metricsChan.
MetricsPagePushed == Len(metricsChan') > Len(metricsChan)

\* C19: each fetcher pushes one element for the page it was just served, the
\* page that follows its continue token, then requests with that page's token,
\* or closes its queue when the page was the last one; a fetcher that returned
\* nil has pushed every page the server serves and closed its queue.
C19_OnePushPerPageInOrder ==
    /\ [][/\ PodPagePushed =>
               /\ spPc = "send"
               /\ ~podChanClosed
               /\ podChan' = Append(podChan, spToken + 1)
               /\ IF spToken + 1 = NumPodPages
                    THEN podChanClosed' /\ spPc' = "done"
                    ELSE ~podChanClosed' /\ spPc' = "list" /\ spToken' = spToken + 1
          /\ MetricsPagePushed =>
               /\ smPc = "send"
               /\ ~metricsChanClosed
               /\ metricsChan' = Append(metricsChan, smToken + 1)
               /\ IF smToken + 1 = NumMetPages
                    THEN metricsChanClosed' /\ smPc' = "done"
                    ELSE ~metricsChanClosed' /\ smPc' = "list"
                           /\ smToken' = smToken + 1
          /\ (spPc = "send" /\ spPc' # "send") => (PodPagePushed \/ spErr' = ErrCanceled)
          /\ (smPc = "send" /\ smPc' # "send") =>
               (MetricsPagePushed \/ smErr' = ErrCanceled)]_vars
    /\ []((spPc = "done" /\ spErr = NoErr) =>
              (podChanClosed /\ spToken + 1 = NumPodPages))
    /\ []((smPc = "done" /\ smErr = NoErr) =>
              (metricsChanClosed /\ smToken + 1 = NumMetPages))

\* Both fetchers returned nil after their last page, with no cancellation.
C19_Witness ==
    /\ spPc = "done" /\ spErr = NoErr /\ podChanClosed
    /\ smPc = "done" /\ smErr = NoErr /\ metricsChanClosed
    /\ ~ctxDone

\* C20: with the shared context done no List call of a fetcher is served any
\* more, and both fetchers go on to close their queues, which ends the range
\* loops of the consumer.
C20_CancelStopsFetchers ==
    /\ [][ctxDone => /\ ~(spPc = "list" /\ spPc' = "send")
                     /\ ~(smPc = "list" /\ smPc' = "send")]_vars
    /\ ctxDone ~> (podChanClosed /\ metricsChanClosed)

\* The caller cancelled; streamPods left its select by ctx.Done() and both
\* queues are closed.
C20_Witness ==
    /\ parentCancelled
    /\ spErr = ErrCanceled
    /\ podChanClosed
    /\ metricsChanClosed

\* C21: a List request that fails while the context is not done is retried:
\* it does not make its fetcher return the failure to the run.
C21_TransientFailureRetried ==
    [][~ctxDone => /\ ~(spPc = "list" /\ spPc' = "ret")
                   /\ ~(smPc = "list" /\ smPc' = "ret")]_vars

----------------------------------------------------------------------------
\* Claims about the correlator.

\* C22: the correlator consumes both queues concurrently: while it runs, a
\* metric page at the head of the metric queue can be dequeued, whether or not
\* the specification queue is still open.
C22_MetricsDequeuedConcurrently ==
    (metricsChan # <<>> /\ corrPc \in {"pods", "metrics"}) =>
        ENABLED correlateRangeMetrics

----------------------------------------------------------------------------
\* Claims about the correlation index.

\* The labels of the model in the order of their keys.
LabelOrder == <<"app=web", "tier=db">>

\* The canonical key=value,... string of a label map: the labels sorted by key.
CanonicalLabels(podLabels) ==
    CHOOSE ls \in formatLabels(podLabels) :
        \A i, j \in 1..Len(ls) :
            i < j => \E a, b \in 1..Len(LabelOrder) :
                        a < b /\ LabelOrder[a] = ls[i] /\ LabelOrder[b] = ls[j]

\* The workload is excluded by the namespace-exclusion pattern or by the
\* label-exclusion pattern.
Excluded(pod, o) ==
    \/ pod.ns \in o.ExcludeNamespaces
    \/ o.ExcludeLabels # <<>> /\ MatchString(o.ExcludeLabels, CanonicalLabels(pod.labels))

\* The pod an entry of the index was made from.
PodOf(entry) == ixPages[entry.from[1]][entry.from[2]]

\* C23: no entry of the index was made from a workload that the namespace
\* exclusion or the label exclusion excludes, so that a metric sample keyed to
\* such a workload finds nothing.
C23_ExcludedNeverIndexed ==
    \A e \in ixIndex : ~Excluded(PodOf(e), ixOpts)

\* The key of the pod at position pos of the page of task t.
KeyAt(from) == ixPages[from[1]][from[2]].ns \o "/" \o ixPages[from[1]][from[2]].name

\* C24: the index holds at most one entry per key namespace/name, and a pod
\* that is stored replaces the entry its key had, whichever task stored it: the
\* entry of a key is the last one stored.
C24_OneRecordPerKey ==
    /\ [](\A e1, e2 \in ixIndex : e1.key = e2.key => e1 = e2)
    /\ [][\A from \in ixStored' \ ixStored :
             \E e \in ixIndex' :
                 /\ e.from = from
                 /\ e.key = KeyAt(from)
                 /\ e.info = NewPodSpecInfo(PodOf(e))]_vars

\* Two index tasks of the streaming collector stored pods of the same key, and
\* the entry is the one of the earlier page, stored last.
C24_Witness ==
    /\ ixVia = "indexPodPage"
    /\ \E a, b \in ixStored :
          /\ a[1] < b[1]
          /\ KeyAt(a) = KeyAt(b)
          /\ \E e \in ixIndex : e.from = a

----------------------------------------------------------------------------
\* Claims about the row computer.

RECURSIVE SumSeq(_)
\* The sum of a sequence of numbers.
SumSeq(q) == IF q = <<>> THEN 0 ELSE q[Len(q)] + SumSeq(SubSeq(q, 1, Len(q) - 1))

\* The limit and the usage a row reports for a resource.
RowLimit(row, res) == IF res = "memory" THEN row.LimitMi ELSE row.LimitMc
RowUsage(row, res) == IF res = "memory" THEN row.UsageMi ELSE row.UsageMc

\* The limit of a container of a pod and the usage of a usage record, 0 when
\* the resource is absent.
LimitOf(c, res) == IF res \in DOMAIN c.limits THEN c.limits[res] ELSE 0
UsageOf(c, res) == IF res \in DOMAIN c.usage THEN c.usage[res] ELSE 0

\* The container called name has a positive limit for res in the pod.
HasPositiveLimit(pod, name, res) ==
    \E i \in 1..Len(pod.containers) :
        pod.containers[i].name = name /\ LimitOf(pod.containers[i], res) > 0

\* The limit of the container called name.
LimitOfName(pod, name, res) ==
    LimitOf(pod.containers[CHOOSE i \in 1..Len(pod.containers) :
                               pod.containers[i].name = name], res)

\* The sum of the limits of the pod's containers that have one.
PodLimitSum(pod, res) ==
    SumSeq([i \in 1..Len(pod.containers) |-> LimitOf(pod.containers[i], res)])

\* The sum of the usage of the records whose container has a positive limit.
LimitedUsageSum(pm, pod, res) ==
    SumSeq([i \in 1..Len(pm.containers) |->
               IF HasPositiveLimit(pod, pm.containers[i].name, res)
                  THEN UsageOf(pm.containers[i], res) ELSE 0])

RECURSIVE LimitedRecords(_, _, _, _)
\* The positions, among the first n usage records, of those whose container
\* has a positive limit, in order.
LimitedRecords(pm, pod, res, n) ==
    IF n = 0 THEN <<>>
    ELSE LimitedRecords(pm, pod, res, n - 1)
           \o (IF HasPositiveLimit(pod, pm.containers[n].name, res) THEN <<n>> ELSE <<>>)

\* The usage records of the sample that are to yield a row.
RowRecords == LimitedRecords(rwPm, rwPod, rwOpts.Resource, Len(rwPm.containers))

\* C25: in pod mode the row computer emits nothing when the sum of the pod's
\* limits for the resource is zero (no container has one), and otherwise one
\* row whose limit is that sum and whose usage is the sum of the usage of the
\* records whose container has a positive limit.
C25_AggregateRow ==
    (rwPc = "done" /\ rwOpts.Mode = "pods") =>
        IF PodLimitSum(rwPod, rwOpts.Resource) = 0
           THEN rwRows = <<>>
           ELSE /\ Len(rwRows) = 1
                /\ RowLimit(rwRows[1], rwOpts.Resource) = PodLimitSum(rwPod, rwOpts.Resource)
                /\ RowUsage(rwRows[1], rwOpts.Resource)
                     = LimitedUsageSum(rwPm, rwPod, rwOpts.Resource)

\* A pod row of two limited containers that leaves out nothing, and a pod row
\* that leaves out the usage of a container without a limit.
C25_Witness ==
    /\ rwPc = "done"
    /\ rwOpts.Mode = "pods"
    /\ Len(rwRows) = 1
    /\ Len(rwPm.containers) = 2
    /\ \E i \in 1..2 : /\ ~HasPositiveLimit(rwPod, rwPm.containers[i].name, rwOpts.Resource)
                       /\ UsageOf(rwPm.containers[i], rwOpts.Resource) > 0
    /\ RowUsage(rwRows[1], rwOpts.Resource) > 0

\* C26: in container mode the row computer emits one row for each usage
\* record whose container has a positive limit for the resource, in the order
\* of the records, with that container's limit and the record's usage, and no
\* row for any other record.
C26_RowPerLimitedContainer ==
    (rwPc = "done" /\ rwOpts.Mode = "containers") =>
        /\ Len(rwRows) = Len(RowRecords)
        /\ \A k \in 1..Len(RowRecords) :
              LET record == rwPm.containers[RowRecords[k]]
              IN  /\ rwRows[k].Namespace = rwPm.ns
                  /\ RowLimit(rwRows[k], rwOpts.Resource)
                       = LimitOfName(rwPod, record.name, rwOpts.Resource)
                  /\ RowUsage(rwRows[k], rwOpts.Resource) = UsageOf(record, rwOpts.Resource)

\* Of two usage records only the second has a limited container: one row.
C26_Witness ==
    /\ rwPc = "done"
    /\ rwOpts.Mode = "containers"
    /\ Len(rwPm.containers) = 2
    /\ RowRecords = <<2>>
    /\ Len(rwRows) = 1
    /\ rwPm.containers[1].name \in {rwPod.containers[i].name : i \in 1..Len(rwPod.containers)}

\* C27 as stated: the name of a container row is the container name, a colon,
\* the pod name.
C27_NameContainerThenPod ==
    (rwPc = "done" /\ rwOpts.Mode = "containers") =>
        \A k \in 1..Len(rwRows) :
            k <= Len(RowRecords) =>
                rwRows[k].Name = rwPm.containers[RowRecords[k]].name \o ":" \o rwPm.name

\* C27: the name of a container row is the pod name, a colon, the container
\* name.
C27_NamePodThenContainer ==
    (rwPc = "done" /\ rwOpts.Mode = "containers") =>
        /\ Len(rwRows) = Len(RowRecords)
        /\ \A k \in 1..Len(rwRows) :
              rwRows[k].Name = rwPm.name \o ":" \o rwPm.containers[RowRecords[k]].name

\* The row of container c2 of pod p1.
C27_Witness ==
    /\ rwPc = "done"
    /\ rwOpts.Mode = "containers"
    /\ \E k \in 1..Len(rwRows) : rwRows[k].Name = "p1:c2"

\* C28: every row has a positive limit for the resource and a percentage of
\* usage x 100 over that limit, which is not negative.
C28_PositiveLimitAndPercentage ==
    rwPc = "done" =>
        \A k \in 1..Len(rwRows) :
            /\ RowLimit(rwRows[k], rwOpts.Resource) > 0
            /\ rwRows[k].Percentage.den = RowLimit(rwRows[k], rwOpts.Resource)
            /\ rwRows[k].Percentage.num = RowUsage(rwRows[k], rwOpts.Resource) * 100
            /\ rwRows[k].Percentage.num >= 0

\* A row above 100 percent.
C28_Witness ==
    /\ rwPc = "done"
    /\ \E k \in 1..Len(rwRows) : rwRows[k].Percentage.num > 100 * rwRows[k].Percentage.den

----------------------------------------------------------------------------
\* Claims about the Analyzer.

\* The value a row is sorted by under the options.
SortKeyOf(row, o) ==
    CASE o.Sort = "usage" -> (IF o.Resource = "memory" THEN row.UsageMi ELSE row.UsageMc)
      [] o.Sort = "limit" -> (IF o.Resource = "memory" THEN row.LimitMi ELSE row.LimitMc)
      [] OTHER -> row.Percentage

\* first may stand before second: its key is larger, or the keys are equal
\* and its namespace is smaller, or those are equal too and its name is not
\* larger.
MayPrecede(first, second, o) ==
    \/ SortKeyOf(first, o) > SortKeyOf(second, o)
    \/ /\ SortKeyOf(first, o) = SortKeyOf(second, o)
       /\ \/ StringLess(first.Namespace, second.Namespace)
          \/ /\ first.Namespace = second.Namespace
             /\ ~StringLess(second.Name, first.Name)

\* out holds the elements of in, each as many times.
IsPermutationOf(out, in) ==
    /\ Len(out) = Len(in)
    /\ \A i \in DOMAIN in :
          Cardinality({k \in DOMAIN out : out[k] = in[i]})
              = Cardinality({k \in DOMAIN in : in[k] = in[i]})

\* The orders in which the rows of a slice can be passed to Sort.
InputOrders(rows) ==
    { [i \in DOMAIN rows |-> rows[perm[i]]] :
        perm \in { f \in [DOMAIN rows -> DOMAIN rows] :
                     \A i, j \in DOMAIN rows : f[i] = f[j] => i = j } }

C30_FilterTopN ==
    anPc = "done" =>
        IF 0 < anOpts.TopN /\ anOpts.TopN < Len(anSorted)
          THEN /\ Len(anOut) = anOpts.TopN
               /\ \A i \in 1..anOpts.TopN : anOut[i] = anSorted[i]
          ELSE anOut = anSorted

\* Filter cut a slice of more than TopN rows.
C30_Witness ==
    /\ anPc = "done"
    /\ 0 < anOpts.TopN
    /\ anOpts.TopN < Len(anSorted)
    /\ Len(anOut) = anOpts.TopN

----------------------------------------------------------------------------
\* Claims about the tasks of CollectStreaming.

\* The keys of the pods on the pages received from podChan.
FetchedPodKeys ==
    UNION {indexPodPage(p) : p \in {q \in PodPageNos : idxPc[q] # "none"}}

\* A step in which the task of metrics page m passes over its current sample
\* without a row to send.
SampleSkipped(m) ==
    /\ metPc[m] = "lookup"
    /\ \/ metPc'[m] = "done"
       \/ metPos'[m] # metPos[m]

\* C31: in a run without failure or cancellation no metric-page task passes
\* over a sample whose pod is on a fetched pod page: each such sample yields
\* its row.
C31_EverySampleCorrelated ==
    [][\A m \in MetPageNos :
          (SampleSkipped(m) /\ gErr = NoErr /\ ~ctxDone)
              => MetricsPage(m)[metPos[m]] \notin FetchedPodKeys]_vars

\* Both fetchers, the correlation consumer and every page task it started
\* have returned.
EveryTaskReturned ==
    /\ spPc = "done" /\ smPc = "done" /\ corrPc = "done"
    /\ \A p \in PodPageNos : idxPc[p] \in {"none", "done"}
    /\ \A m \in MetPageNos : metPc[m] \in {"none", "done"}

\* C32: the outbound channel is closed by one step, taken when every task of
\* the run has returned, after which the closing goroutine is over; once the
\* channel is closed every task has returned and nothing is sent on it.
C32_ClosedOnceAfterAllTasks ==
    /\ [](resultChanClosed => EveryTaskReturned)
    /\ [][(~resultChanClosed /\ resultChanClosed') =>
              (EveryTaskReturned /\ mainPc = "wait" /\ mainPc' = "closed")]_vars
    /\ [][resultChanClosed =>
              /\ resultChanClosed'
              /\ mainPc' = "closed"
              /\ Len(resultChan') <= Len(resultChan)
              /\ EveryTaskReturned']_vars

\* The channel was closed after index tasks and metric-page tasks had run and
\* a row had been sent.
C32_Witness ==
    /\ resultChanClosed
    /\ \A p \in PodPageNos : idxPc[p] = "done"
    /\ \A m \in MetPageNos : metPc[m] = "done"
    /\ \E i \in 1..Len(resultChan) : resultChan[i].kind = "row"

\* The positions of the error values in the outbound channel.
ErrorPositions == {i \in 1..Len(resultChan) : resultChan[i].kind = "error"}

\* The error values delivered so far that the state shows: those in the
\* channel and one the consumer received.
ErrorsDelivered == Cardinality(ErrorPositions) + (IF recvErr THEN 1 ELSE 0)

\* C33: at most one error value is delivered on the outbound channel; it is
\* sent by the step that closes the channel, as its last element, nothing is
\* sent after it, and it is the first error a task returned to the group:
\* errors returned later do not replace it.
C33_OneErrorLastFirstWins ==
    /\ [](/\ ErrorsDelivered <= 1
          /\ \A i \in ErrorPositions :
                /\ i = Len(resultChan)
                /\ resultChanClosed
                /\ resultChan[i].err = gErr
                /\ gErr # NoErr)
    /\ [][(ErrorsDelivered > 0) => Len(resultChan') <= Len(resultChan)]_vars
    /\ [][(gErr # NoErr) => gErr' = gErr]_vars

\* The error of streamPods was delivered; streamMetrics returned another
\* error later, which was discarded.
C33_Witness ==
    /\ resultChanClosed
    /\ ErrorPositions # {}
    /\ gErr = ErrStreamPods
    /\ smPc = "done"
    /\ smErr = ErrStreamMetrics

\* The page tasks that are processing a page: between sem.Acquire and the
\* deferred sem.Release.
IndexTasksProcessing == {p \in PodPageNos : idxPc[p] = "index"}
MetricTasksProcessing == {m \in MetPageNos : metPc[m] \in {"lookup", "send"}}

\* C34: at most maxConcurrency page tasks process a page at a time; the
\* permits held are those of the tasks processing, so each task that got a
\* permit gives it back once when it stops, with or without an error; a
\* task whose sem.Acquire fails stores nothing, sends nothing, holds no
\* permit and returns.
C34_BoundedPageTasks ==
    /\ [](/\ Cardinality(IndexTasksProcessing) + Cardinality(MetricTasksProcessing)
                <= MaxConcurrency
          /\ semCur = Cardinality(IndexTasksProcessing)
                        + Cardinality(MetricTasksProcessing))
    /\ [][/\ \A p \in PodPageNos :
                /\ (idxPc[p] = "acquire" /\ idxPc'[p] = "ret") =>
                      UNCHANGED <<podIndex, resultChan, semCur>>
                /\ idxPc[p] = "ret" => idxPc'[p] \in {"ret", "done"}
                /\ idxPc[p] = "done" => idxPc'[p] = "done"
           /\ \A m \in MetPageNos :
                /\ (metPc[m] = "acquire" /\ metPc'[m] = "ret") =>
                      UNCHANGED <<podIndex, resultChan, semCur>>
                /\ metPc[m] = "ret" => metPc'[m] \in {"ret", "done"}
                /\ metPc[m] = "done" => metPc'[m] = "done"]_vars

\* Every permit is held while a metric-page task waits for one and the
\* context is done.
C34_Witness ==
    /\ semCur = MaxConcurrency
    /\ ctxDone
    /\ \E m \in MetPageNos : metPc[m] = "acquire"

----------------------------------------------------------------------------
\* Claims about the two collectors.

\* The pods of all pages, in the order the server listed them.
RECURSIVE FetchedPods(_)
FetchedPods(t) ==
    IF t = 0 THEN <<>> ELSE FetchedPods(t - 1) \o ixPages[t]

\* The index the streaming collector has built, as the map from key to
\* PodSpecInfo that processMetricsPage reads.
StreamingIndex ==
    [k \in {e.key : e \in ixIndex} |-> (CHOOSE e \in ixIndex : e.key = k).info]

\* The options of the run with a mode and a resource.
RunOptions(mode, resource) ==
    [Mode |-> mode, Resource |-> resource,
     ExcludeNamespaces |-> ixOpts.ExcludeNamespaces,
     LabelSelector |-> ixOpts.LabelSelector]

\* The server listed each pod once and only pods the label selector matches.
ServerListWellFormed ==
    LET pods == FetchedPods(Len(ixPages))
    IN  /\ \A i, j \in 1..Len(pods) :
              (pods[i].ns = pods[j].ns /\ pods[i].name = pods[j].name) => i = j
        /\ \A i \in 1..Len(pods) : SelectorMatches(ixOpts.LabelSelector, pods[i].labels)

\* C35: once the index tasks of the streaming collector have indexed every
\* fetched page, each metric sample yields the rows that Collect computes
\* from the same pods, sample and options, in either mode and for either
\* resource.
C35_SameRowsAsCollect ==
    (ixVia = "indexPodPage" /\ IndexTasksRunning = {} /\ ServerListWellFormed) =>
        \A pm \in MetricSamples, mode \in {"pods", "containers"},
           resource \in {"memory", "cpu"} :
            computeUsageRows(<<pm>>, StreamingIndex, RunOptions(mode, resource))
                = correlateData(FetchedPods(Len(ixPages)), <<pm>>,
                                RunOptions(mode, resource))[1]

----------------------------------------------------------------------------
\* Claims about concurrent Execute calls.

\* C36: whenever the breaker enters HalfOpen, under any interleaving of
\* concurrent Execute calls, its success counter is 0.
C36_HalfOpenStartsAtZero ==
    [][(currentState # "HalfOpen" /\ currentState' = "HalfOpen")
          => successCount' = 0]_vars

----------------------------------------------------------------------------
\* Claims about Release and failed Acquire calls.

\* The operations in flight: their Acquire took a slot and they have not
\* called Release.
InFlight == {c \in PoolCallers : rpPc[c] \in {"add", "held"}}

\* C37: a Release call, matched or not, never waits: at its receive from the
\* semaphore a slot is there to take; and the slots occupied are never fewer
\* than the operations in flight, so that no Release has freed the slot of
\* another operation.
C37_ReleaseNeverBlocks ==
    /\ \A c \in PoolCallers : rpPc[c] = "drain" => semaphoreLen > 0
    /\ semaphoreLen >= Cardinality(InFlight)

\* A step in which the Acquire call of caller c returns an error.
AcquireFailed(c) ==
    /\ rpPc'[c] = "idle"
    /\ \/ rpPc[c] = "select" /\ rpResult'[c] = ErrCanceled
       \/ /\ rpPc[c] = "idle"
          /\ rpResult[c] # ErrInsufficientMemory
          /\ rpResult'[c] = ErrInsufficientMemory

\* C38: an Acquire call that returns an error has changed neither
\* currentMemMB nor the slots occupied: the steps of a call up to its error
\* return leave both alone, the caller holds nothing afterwards, and the
\* slots occupied are those of the callers whose Acquire got past the select.
C38_FailedAcquireLeavesPool ==
    /\ [](semaphoreLen = Cardinality(SlotHolders))
    /\ [][\A c \in PoolCallers :
             /\ (rpPc[c] = "idle" /\ rpPc'[c] = "select") =>
                   UNCHANGED <<currentMemMB, semaphoreLen>>
             /\ AcquireFailed(c) =>
                   /\ UNCHANGED <<currentMemMB, semaphoreLen>>
                   /\ rpCost'[c] = 0]_vars

\* An Acquire returned the context's error while every slot was occupied
\* and memory was accounted.
C38_Witness ==
    /\ \E c \in PoolCallers : rpPc[c] = "idle" /\ rpResult[c] = ErrCanceled
    /\ semaphoreLen = PoolConcurrency
    /\ currentMemMB > 0

----------------------------------------------------------------------------
\* Claims about ExecuteWithRetry without attempts.

\* C39: a call with maxAttempts <= 0 returns a non-nil error without having
\* invoked the operation, and a call that returns nil has invoked the
\* operation at least once, the last invocation succeeding.
C39_NoAttemptsIsAnError ==
    /\ (rtPc = "done" /\ config.MaxAttempts <= 0) =>
          /\ invocations = 0
          /\ rtResult.err \notin {NoErr, "none"}
    /\ (rtPc = "done" /\ rtResult.err = NoErr) =>
          /\ invocations >= 1
          /\ lastErr = 0

\* A call with maxAttempts = 0 returned the composite error that wraps nil.
C39_Witness ==
    /\ rtPc = "done"
    /\ config.MaxAttempts = 0
    /\ invocations = 0
    /\ rtResult = FailedAfter(0, 0)

----------------------------------------------------------------------------
\* Claims about the PerformanceMonitor.

\* C40: once a Stop call has returned, the goroutine started by Start
\* begins no further memory update and eventually returns, whether or not
\* the context is ever cancelled.
C40_StopEndsMonitor ==
    /\ [][(pmStops > 0) => ~(pmPc # "update" /\ pmPc' = "update")]_vars
    /\ (pmStops > 0) ~> (pmPc = "returned")

====
